---- MODULE Spec2Model ----
(***************************************************************************)
(* State-machine model of the Ghostty terminal panels.                     *)
(*                                                                         *)
(*   TabbedGhosttyTerminal  (src/src/panels/TabbedGhosttyTerminal.tsx)     *)
(*     the tab manager: tabs, activeTabId, sessionIds, restoreSessions,    *)
(*     switchTab, addNewTab, closeTab, handleKeyDown, and the session      *)
(*     acquisition of each TerminalTabContent (initSession); further down  *)
(*     one TerminalTabContent with its effects, subscription and timers.   *)
(*   GhosttyTerminal  (src/src/panels/GhosttyTerminal.tsx)                 *)
(*     one panel per window on a shared session, with the host's           *)
(*     Ownership Arbiter between them.                                     *)
(*                                                                         *)
(* React state is modelled at the granularity of one handler: the state    *)
(* updates a handler makes in one synchronous run are applied together and *)
(* followed by the render they cause (mounting the TerminalTabContent of   *)
(* every tab id that is new in the list, unmounting those that left it).   *)
(* An async handler is cut at each await on a host action.  State updates  *)
(* made after an await are applied together when the renderer batches them *)
(* (React 18 createRoot) and one by one, each followed by its render, when *)
(* it does not (legacy root): props.batched says which, React being a peer *)
(* dependency the host supplies.                                           *)
(***************************************************************************)
EXTENDS Naturals, Integers, Sequences, FiniteSets, TLC

----------------------------------------------------------------------------
(* Bounds of the model *)

MaxTabs == 3           \* longest tab list explored
MaxStamp == 2          \* distinct Date.now() values handed out to addNewTab
MaxCreates == 2        \* createTerminalSession calls issued in one run
MaxClosing == 1        \* closeTab calls awaiting destroyTerminalSession at once
MaxHostSessions == 2   \* sessions that exist in the host before the panel mounts
MaxOpening == 1        \* `await term.open(...)` calls of one component under way at once
MaxWindows == 2        \* windows showing the same session
MaxReplays == 2        \* writes of a replayed buffer to one terminal instance that are counted
MaxRefreshTimeouts == 1  \* refresh timeouts of one GhosttyTerminal pending at once

(* Program constants *)

LockWindowMs == 500    \* setTimeout(..., 500) releasing isCreatingTabRef
LastTabDigit == 9      \* keyNum === 9 means "last tab"
NoSession == 0         \* `sessionIds.get(tab.id) || null`: no session id
RefreshAfterOpenMs == 200     \* TerminalTabContent, refresh after term.open
RefreshRestoredMs == 100      \* TerminalTabContent, refresh of a restored session
RefreshOnActivateMs == 100    \* TerminalTabContent, refresh on activation

----------------------------------------------------------------------------
(* Values *)

Null == <<"null", 0>>                  \* activeTabId === null
EmptyMap == [id \in {} |-> 0]          \* new Map()
Undefined == <<"undefined">>           \* TerminalSessionInfo.context absent
DefaultDirectory == <<"", "repo">>     \* props.directory, "/repo" split at '/'
EmptyString == <<"">>                  \* "" split at '/'

Min(a, b) == IF a < b THEN a ELSE b
Max(a, b) == IF a > b THEN a ELSE b
Last(s) == s[Len(s)]

(* String.prototype.startsWith over strings held as token sequences. *)
StartsWith(str, prefix) ==
    /\ Len(prefix) <= Len(str)
    /\ \A i \in 1..Len(prefix) : str[i] = prefix[i]

(* `path.split('/').pop() || path` *)
LastSegment(path) == IF Last(path) # "" THEN <<Last(path)>> ELSE path

(* `session.cwd || directory` *)
CwdOr(cwd, directory) == IF cwd = EmptyString THEN directory ELSE cwd

TabIds(ts) == {ts[i].id : i \in 1..Len(ts)}

(* index (1-based) of the first tab with this id, 0 when there is none *)
IndexOf(ts, id) ==
    IF id \in TabIds(ts)
    THEN CHOOSE i \in 1..Len(ts) : ts[i].id = id /\ \A j \in 1..(i-1) : ts[j].id # id
    ELSE 0

ActiveCount(ts) == Cardinality({i \in 1..Len(ts) : ts[i].isActive})

----------------------------------------------------------------------------
VARIABLES
    props,            \* the component's props, fixed at construction
    hostSessions,     \* Session Directory: the sessions the host holds
    tabs,             \* useState<TerminalTab[]>(initialTabs)
    activeTabId,      \* useState<string | null>(null)
    sessionIds,       \* useState<Map<string, string>>: tab id -> session id
    restorePhase,     \* position of restoreSessions
    ourSessions,      \* restoreSessions' filtered list, held across its updates
    closing,          \* closeTab calls suspended at `await destroyTerminalSession`
    content,          \* mounted TerminalTabContent components, by tab id (key)
    creating,         \* initSession calls suspended at `await createTerminalSession`
    createCalls,      \* number of createTerminalSession calls issued
    isCreatingTabRef, \* useRef(false): the new-tab lock
    lockTimers,       \* remaining delays of the pending unlock timeouts
    dateNow,          \* last value Date.now() returned to addNewTab
    msElapsed,        \* a millisecond has passed since that value was read
    sinceChord,       \* time since the last accepted modifier+T (saturating)
    sinceAdd,         \* time since the last addNewTab call (saturating)
    lastOp,           \* the handler that ran last, and its argument
    reportedTabs,     \* the argument of the last onTabsChange call
    tabActions,       \* one TerminalTabContent: which optional actions its host has
    tabView,          \* one TerminalTabContent: props, state, refs, subscription
    refreshTimers,    \* one TerminalTabContent: its pending refresh timeouts
    windows,          \* GhosttyTerminal panels, one per window, on one session
    sessionOwner,     \* Ownership Arbiter: the window owning the session, 0 if none
    ownershipLost     \* windows with a terminal:ownershipLost event under way

viewVars == <<tabActions, tabView, refreshTimers>>
windowVars == <<windows, sessionOwner, ownershipLost>>
(* what no handler of TabbedGhosttyTerminal writes: its props, and the
   components followed on their own further down *)
fixedVars == <<props, viewVars, windowVars>>
hostVars == <<fixedVars, hostSessions>>
tabVars == <<tabs, activeTabId, sessionIds>>
restoreVars == <<restorePhase, ourSessions>>
contentVars == <<content, creating, createCalls>>
lockVars == <<isCreatingTabRef, lockTimers>>
clockVars == <<dateNow, msElapsed, sinceChord, sinceAdd>>
panelVars == <<hostVars, tabVars, restoreVars, closing, contentVars,
               lockVars, clockVars, lastOp, reportedTabs>>
tabbedVars == <<props, hostSessions, tabVars, restoreVars, closing, contentVars,
                lockVars, clockVars, lastOp, reportedTabs>>
vars == <<panelVars>>

----------------------------------------------------------------------------
(* Session Restorer: restoreSessions, lines 330-379 *)

(* the filter with `===` in place of startsWith *)
SessionMatchesExactly(session, showAll, terminalContext) ==
    \/ showAll
    \/ session.context = terminalContext

(* `sessions.filter(s => showAllTerminals || s.context?.startsWith(terminalContext))` *)
SessionMatches(session, showAll, terminalContext) ==
    \/ showAll
    \/ /\ session.context # Undefined
       /\ StartsWith(session.context, terminalContext)

FilterSessions(sessions, showAll, terminalContext) ==
    SelectSeq(sessions, LAMBDA s : SessionMatches(s, showAll, terminalContext))

(* the synthesized tab with every tab marked active *)
RestoredTabAlwaysActive(session, index, directory) ==
    [id |-> <<"restored", session.id>>,
     label |-> LastSegment(CwdOr(session.cwd, directory)),
     directory |-> CwdOr(session.cwd, directory),
     isActive |-> TRUE]

(* the tab synthesized for the index-th surviving session (index from 1) *)
RestoredTab(session, index, directory) ==
    [id |-> <<"restored", session.id>>,
     label |-> LastSegment(CwdOr(session.cwd, directory)),
     directory |-> CwdOr(session.cwd, directory),
     isActive |-> index = 1]

RestoredTabs(sessions, directory) ==
    [i \in 1..Len(sessions) |-> RestoredTab(sessions[i], i, directory)]

RestoredSessionIds(sessions) ==
    [id \in {<<"restored", sessions[i].id>> : i \in 1..Len(sessions)} |->
        sessions[CHOOSE i \in 1..Len(sessions) : <<"restored", sessions[i].id>> = id].id]

(* `initialTabs.find(t => t.isActive)?.id || initialTabs[0]?.id || null` *)
InitialActiveId(its) ==
    IF \E i \in 1..Len(its) : its[i].isActive
    THEN its[CHOOSE i \in 1..Len(its) :
                its[i].isActive /\ \A j \in 1..(i-1) : ~its[j].isActive].id
    ELSE IF Len(its) > 0 THEN its[1].id ELSE Null

(* the branch with the `initialTabs.length === 0` test of line 346 left out *)
RestoreBranchIgnoringInitialTabs(ours, its) ==
    IF Len(ours) > 0 THEN "restored"
    ELSE IF Len(its) > 0 THEN "initial"
    ELSE "none"

(* which branch of restoreSessions a filtered list takes *)
RestoreBranch(ours, its) ==
    IF Len(ours) > 0 /\ Len(its) = 0 THEN "restored"
    ELSE IF Len(its) > 0 THEN "initial"
    ELSE "none"

----------------------------------------------------------------------------
(* TerminalTabContent: the mount effect and initSession, lines 49-103 *)

(* state of a component right after its mount effect ran with this sessionId prop *)
MountState(id, sessMap) ==
    IF id \in DOMAIN sessMap
    THEN [localSessionId |-> sessMap[id], isInitialized |-> TRUE, error |-> FALSE,
          claimAsked |-> TRUE]
    ELSE IF ~props.has.create
         THEN [localSessionId |-> NoSession, isInitialized |-> FALSE, error |-> TRUE,
               claimAsked |-> FALSE]
         ELSE [localSessionId |-> NoSession, isInitialized |-> FALSE, error |-> FALSE,
               claimAsked |-> FALSE]

MountCreatesAlways(t, sessMap) == props.has.create

(* does the component mounted for tab t with this sessionIds map call
   createTerminalSession? *)
MountCreates(t, sessMap) ==
    /\ t.id \notin DOMAIN sessMap
    /\ props.has.create

(* tabs of newTabs whose component is mounted by this render and creates a session *)
NeedCreate(newTabs, sessMap) ==
    SelectSeq(newTabs, LAMBDA t : t.id \notin DOMAIN content /\ MountCreates(t, sessMap))

(* The render that follows a state update, lines 686-697: one TerminalTabContent
   per tab, keyed by tab.id.  Components of new keys mount and run initSession,
   components whose key left the list unmount (their `mounted` flag drops). *)
RenderWith(baseContent, baseCreating, newTabs, newSess, newActive) ==
    LET ids == TabIds(newTabs)
        need == NeedCreate(newTabs, newSess)
    IN  /\ createCalls + Len(need) <= MaxCreates
        /\ tabs' = newTabs
        /\ sessionIds' = newSess
        /\ activeTabId' = newActive
        /\ content' = [id \in ids |->
                         IF id \in DOMAIN baseContent THEN baseContent[id]
                         ELSE MountState(id, newSess)]
        /\ creating' =
              {[c EXCEPT !.alive = c.alive /\ c.tab \in ids] : c \in baseCreating}
              \cup {[tab |-> need[k].id, cwd |-> need[k].directory,
                     call |-> createCalls + k, alive |-> TRUE] : k \in 1..Len(need)}
        /\ createCalls' = createCalls + Len(need)

Render(newTabs, newSess, newActive) ==
    RenderWith(content, creating, newTabs, newSess, newActive)

----------------------------------------------------------------------------
(* Mount of TabbedGhosttyTerminal: first render, the children's mount effects,
   then the effect of lines 382-389 calling restoreSessions up to its await. *)

(* lastOp is a history variable; a run that starts with NotRecorded keeps none *)
NotRecorded == [op |-> "-", n |-> 0]

Op(name, n) == IF lastOp = NotRecorded THEN NotRecorded ELSE [op |-> name, n |-> n]

(* the history of onTabsChange calls, kept only by the specifications that
   follow it *)
NotFollowed == [followed |-> FALSE, called |-> FALSE, tabs |-> << >>]

NothingReported == [followed |-> TRUE, called |-> FALSE, tabs |-> << >>]

(* `onTabsChange?.(ts)` *)
Reported(ts) ==
    IF reportedTabs.followed
    THEN [followed |-> TRUE, called |-> TRUE, tabs |-> ts]
    ELSE NotFollowed

Mount ==
    /\ restorePhase = "unmounted"
    /\ IF props.has.list
       THEN /\ Render(tabs, sessionIds, activeTabId)
            /\ restorePhase' = "listing"
       ELSE \* sessions = []: the else-if branch runs inside the effect
            /\ Render(IF Len(props.initialTabs) > 0 THEN props.initialTabs ELSE tabs,
                      sessionIds,
                      IF Len(props.initialTabs) > 0
                      THEN InitialActiveId(props.initialTabs) ELSE activeTabId)
            /\ restorePhase' = "done"
    /\ lastOp' = Op("mount", 0)
    /\ UNCHANGED <<hostVars, ourSessions, closing, reportedTabs, lockVars, clockVars>>

(* listTerminalSessions resolved: the part of restoreSessions after the await.
   Batched: lines 364-366 (or 371-374) take effect in one render. *)
ListResolveBatched ==
    /\ restorePhase = "listing"
    /\ props.batched
    /\ LET ours == FilterSessions(hostSessions, props.showAllTerminals,
                                  props.terminalContext)
           branch == RestoreBranch(ours, props.initialTabs)
       IN  /\ ourSessions' = ours
           /\ CASE branch = "restored" ->
                     Render(RestoredTabs(ours, props.directory),
                            RestoredSessionIds(ours),
                            RestoredTabs(ours, props.directory)[1].id)
                [] branch = "initial" ->
                     Render(props.initialTabs, sessionIds,
                            InitialActiveId(props.initialTabs))
                [] OTHER -> Render(tabs, sessionIds, activeTabId)
           \* line 367
           /\ reportedTabs' = IF branch = "restored"
                              THEN Reported(RestoredTabs(ours, props.directory))
                              ELSE reportedTabs
    /\ restorePhase' = "done"
    /\ lastOp' = Op("restore", 0)
    /\ UNCHANGED <<hostVars, closing, lockVars, clockVars>>

(* Not batched: each setState after the await renders on its own.
   Line 364 / 371, setTabs, and the render it causes. *)
ListResolveSetTabs ==
    /\ restorePhase = "listing"
    /\ ~props.batched
    /\ LET ours == FilterSessions(hostSessions, props.showAllTerminals,
                                  props.terminalContext)
           branch == RestoreBranch(ours, props.initialTabs)
       IN  /\ ourSessions' = ours
           /\ CASE branch = "restored" ->
                     /\ Render(RestoredTabs(ours, props.directory), sessionIds,
                               activeTabId)
                     /\ restorePhase' = "setTabsDone"
                [] branch = "initial" ->
                     /\ Render(props.initialTabs, sessionIds, activeTabId)
                     /\ restorePhase' = "setSessionIdsDone"
                [] OTHER ->
                     /\ Render(tabs, sessionIds, activeTabId)
                     /\ restorePhase' = "done"
    /\ lastOp' = Op("restore", 0)
    /\ UNCHANGED <<hostVars, closing, reportedTabs, lockVars, clockVars>>

(* line 365, setSessionIds(restoredSessionIds), and its render *)
RestoreSetSessionIds ==
    /\ restorePhase = "setTabsDone"
    /\ Render(tabs, RestoredSessionIds(ourSessions), activeTabId)
    /\ restorePhase' = "setSessionIdsDone"
    /\ lastOp' = Op("restore", 0)
    /\ UNCHANGED <<hostVars, ourSessions, closing, reportedTabs, lockVars, clockVars>>

(* line 366 / 372, setActiveTabId, and its render *)
RestoreSetActiveTabId ==
    /\ restorePhase = "setSessionIdsDone"
    /\ Render(tabs, sessionIds,
              IF RestoreBranch(ourSessions, props.initialTabs) = "restored"
              THEN RestoredTabs(ourSessions, props.directory)[1].id
              ELSE InitialActiveId(props.initialTabs))
    \* line 367
    /\ reportedTabs' = IF RestoreBranch(ourSessions, props.initialTabs) = "restored"
                       THEN Reported(RestoredTabs(ourSessions, props.directory))
                       ELSE reportedTabs
    /\ restorePhase' = "done"
    /\ lastOp' = Op("restore", 0)
    /\ UNCHANGED <<hostVars, ourSessions, closing, lockVars, clockVars>>

(* listTerminalSessions rejected: the catch of lines 376-378 only logs *)
ListReject ==
    /\ restorePhase = "listing"
    /\ restorePhase' = "done"
    /\ lastOp' = Op("restoreFailed", 0)
    /\ UNCHANGED <<hostVars, tabVars, ourSessions, closing, reportedTabs, contentVars,
                   lockVars, clockVars>>

(* the panel is mounted and no synchronous run of restoreSessions is under way:
   user events and host replies are handled only then *)
Idle == restorePhase \in {"listing", "done"}

----------------------------------------------------------------------------
(* Tab Manager *)

(* a switch that leaves the other tabs' flags alone *)
SwitchedTabsKeepingOthers(prevTabs, tabId) ==
    [i \in 1..Len(prevTabs) |->
        [prevTabs[i] EXCEPT !.isActive = @ \/ (prevTabs[i].id = tabId)]]

(* switchTab, lines 392-400 *)
SwitchedTabs(prevTabs, tabId) ==
    [i \in 1..Len(prevTabs) |-> [prevTabs[i] EXCEPT !.isActive = (prevTabs[i].id = tabId)]]

switchTab(tabId) ==
    Render(SwitchedTabs(tabs, tabId), sessionIds, tabId)

(* addNewTab made to honour the new-tab lock *)
addNewTabUnderLock ==
    IF isCreatingTabRef
    THEN UNCHANGED <<tabVars, contentVars, dateNow, msElapsed, sinceAdd, reportedTabs>>
    ELSE /\ reportedTabs' =
               Reported(Append([i \in 1..Len(tabs) |-> [tabs[i] EXCEPT !.isActive = FALSE]],
                               [id |-> <<"tab", IF msElapsed THEN dateNow + 1 ELSE dateNow>>,
                                label |-> LastSegment(props.directory),
                                directory |-> props.directory, isActive |-> TRUE]))
         /\ Len(tabs) < MaxTabs
         /\ (IF msElapsed THEN dateNow + 1 ELSE dateNow) <= MaxStamp
         /\ Render(Append([i \in 1..Len(tabs) |-> [tabs[i] EXCEPT !.isActive = FALSE]],
                          [id |-> <<"tab", IF msElapsed THEN dateNow + 1 ELSE dateNow>>,
                           label |-> LastSegment(props.directory),
                           directory |-> props.directory, isActive |-> TRUE]),
                   sessionIds, <<"tab", IF msElapsed THEN dateNow + 1 ELSE dateNow>>)
         /\ dateNow' = IF msElapsed THEN dateNow + 1 ELSE dateNow
         /\ msElapsed' = FALSE
         /\ sinceAdd' = 0

(* addNewTab, lines 403-425; `tab-${Date.now()}` *)
NewStamp == IF msElapsed THEN dateNow + 1 ELSE dateNow

NewTab(stamp, targetDir) ==
    [id |-> <<"tab", stamp>>, label |-> LastSegment(targetDir),
     directory |-> targetDir, isActive |-> TRUE]

(* the new tab put in front of the list *)
AddedTabsInFront(prevTabs, newTab) ==
    <<newTab>> \o [i \in 1..Len(prevTabs) |-> [prevTabs[i] EXCEPT !.isActive = FALSE]]

(* the setTabs updater of addNewTab, lines 415-420 *)
AddedTabs(prevTabs, newTab) ==
    Append([i \in 1..Len(prevTabs) |-> [prevTabs[i] EXCEPT !.isActive = FALSE]], newTab)

addNewTab ==
    /\ Len(tabs) < MaxTabs
    /\ NewStamp <= MaxStamp
    /\ Render(AddedTabs(tabs, NewTab(NewStamp, props.directory)), sessionIds,
              <<"tab", NewStamp>>)
    \* line 418
    /\ reportedTabs' = Reported(AddedTabs(tabs, NewTab(NewStamp, props.directory)))
    /\ dateNow' = NewStamp
    /\ msElapsed' = FALSE
    /\ sinceAdd' = 0

(* closeTab activating the tab before the closed one *)
ClosedTabsActivatingPrevious(prevTabs, tabId, activeAt) ==
    LET newTabs == SelectSeq(prevTabs, LAMBDA t : t.id # tabId)
        i == IndexOf(prevTabs, tabId)
    IN  IF activeAt = tabId /\ Len(newTabs) > 0
        THEN [newTabs EXCEPT ![Max(1, i - 1)].isActive = TRUE]
        ELSE newTabs

(* closeTab after its await, lines 444-457: prevTabs is the current list,
   activeAt the activeTabId the callback closed over *)
ClosedTabs(prevTabs, tabId, activeAt) ==
    LET newTabs == SelectSeq(prevTabs, LAMBDA t : t.id # tabId)
    IN  IF activeAt = tabId /\ Len(newTabs) > 0
        THEN [newTabs EXCEPT ![Len(newTabs)].isActive = TRUE]
        ELSE newTabs

ClosedActiveId(prevTabs, tabId, activeAt, current) ==
    LET newTabs == SelectSeq(prevTabs, LAMBDA t : t.id # tabId)
    IN  IF activeAt = tabId /\ Len(newTabs) > 0 THEN newTabs[Len(newTabs)].id
        ELSE IF Len(newTabs) = 0 THEN Null
        ELSE current

NewSessionId(c) == MaxHostSessions + c.call

(* `${terminalContext}:${tab.id}` *)
NewSessionContext == props.terminalContext \o <<":tab">>

(* The Session Directory is read by listTerminalSessions alone: it is followed
   until the one listing of a run has been answered. *)
HostAfterCreate(c) ==
    IF restorePhase = "listing"
    THEN Append(hostSessions, [id |-> NewSessionId(c), cwd |-> c.cwd,
                               context |-> NewSessionContext])
    ELSE hostSessions

HostAfterDestroy(sid, ok) ==
    IF restorePhase = "listing" /\ ok
    THEN SelectSeq(hostSessions, LAMBDA s : s.id # sid)
    ELSE hostSessions

(* `newMap.delete(tabId)` *)
MapDelete(m, key) == [k \in DOMAIN m \ {key} |-> m[k]]

(* `new Map(prev).set(tabId, sessionId)` *)
MapSet(m, key, value) == [k \in DOMAIN m \cup {key} |-> IF k = key THEN value ELSE m[k]]

(* what a close records: the 1-based index of the closed tab when it is the tab
   the callback held as active, 0 otherwise *)
ClosedIndex(prevTabs, tabId, activeAt) ==
    IF activeAt = tabId THEN IndexOf(prevTabs, tabId) ELSE 0

FreeSlot == CHOOSE k \in 1..MaxClosing : \A r \in closing : r.k # k

(* closeTab, lines 428-460, up to its await (or to its end when it does not await) *)
closeTab(tabId) ==
    IF tabId \in DOMAIN sessionIds /\ props.has.destroy
    THEN /\ Cardinality(closing) < MaxClosing
         /\ closing' = closing \cup {[tab |-> tabId, activeAt |-> activeTabId,
                                      sid |-> sessionIds[tabId], k |-> FreeSlot]}
         /\ lastOp' = Op("closeRequested", 0)
         /\ UNCHANGED <<tabVars, contentVars, reportedTabs>>
    ELSE /\ Render(ClosedTabs(tabs, tabId, activeTabId), sessionIds,
                   ClosedActiveId(tabs, tabId, activeTabId, activeTabId))
         \* line 455
         /\ reportedTabs' = Reported(ClosedTabs(tabs, tabId, activeTabId))
         /\ lastOp' = Op("closed", ClosedIndex(tabs, tabId, activeTabId))
         /\ UNCHANGED closing

(* closeTab giving up when destroyTerminalSession rejects *)
DestroySettledStoppingOnReject(r, ok) ==
    /\ Idle
    /\ r \in closing
    /\ closing' = closing \ {r}
    /\ IF ok
       THEN /\ Render(ClosedTabs(tabs, r.tab, r.activeAt), MapDelete(sessionIds, r.tab),
                      ClosedActiveId(tabs, r.tab, r.activeAt, activeTabId))
            /\ reportedTabs' = Reported(ClosedTabs(tabs, r.tab, r.activeAt))
       ELSE UNCHANGED <<tabVars, contentVars, reportedTabs>>
    /\ hostSessions' = HostAfterDestroy(r.sid, ok)
    /\ lastOp' = Op(IF ok THEN "closed" ELSE "closedDestroyFailed",
                    ClosedIndex(tabs, r.tab, r.activeAt))
    /\ UNCHANGED <<fixedVars, restoreVars, lockVars, clockVars>>

(* destroyTerminalSession settled (resolved when ok, rejected otherwise):
   lines 437-457 *)
DestroySettled(r, ok) ==
    /\ Idle
    /\ r \in closing
    /\ closing' = closing \ {r}
    /\ Render(ClosedTabs(tabs, r.tab, r.activeAt), MapDelete(sessionIds, r.tab),
              ClosedActiveId(tabs, r.tab, r.activeAt, activeTabId))
    \* line 455
    /\ reportedTabs' = Reported(ClosedTabs(tabs, r.tab, r.activeAt))
    /\ hostSessions' = HostAfterDestroy(r.sid, ok)
    /\ lastOp' = Op(IF ok THEN "closed" ELSE "closedDestroyFailed",
                    ClosedIndex(tabs, r.tab, r.activeAt))
    /\ UNCHANGED <<fixedVars, restoreVars, lockVars, clockVars>>

----------------------------------------------------------------------------
(* createTerminalSession settling: initSession after its await, lines 81-94 *)

StillMountedAlways(c) == TRUE

(* the `mounted` flag of the component that made the call, line 81 *)
StillMounted(c) == c.alive

CreateResolved(c) ==
    /\ Idle
    /\ c \in creating
    /\ hostSessions' = HostAfterCreate(c)
    /\ IF StillMounted(c)
       THEN \* setLocalSessionId, setIsInitialized, onSessionCreated (line 464),
            \* claimTerminalOwnership (lines 88-89)
            /\ RenderWith([id \in DOMAIN content \cup {c.tab} |->
                             IF id = c.tab
                             THEN [localSessionId |-> NewSessionId(c),
                                   isInitialized |-> TRUE, error |-> FALSE,
                                   claimAsked |-> TRUE]
                             ELSE content[id]],
                          creating \ {c}, tabs,
                          MapSet(sessionIds, c.tab, NewSessionId(c)), activeTabId)
            /\ lastOp' = Op("created", 0)
       ELSE \* `if (!mounted) return`
            /\ creating' = creating \ {c}
            /\ lastOp' = Op("createIgnored", 0)
            /\ UNCHANGED <<tabVars, content, createCalls>>
    /\ UNCHANGED <<fixedVars, restoreVars, closing, reportedTabs, lockVars, clockVars>>

(* a rejection that leaves no error behind *)
CreateRejectedSilently(c) ==
    /\ Idle
    /\ c \in creating
    /\ creating' = creating \ {c}
    /\ lastOp' = Op("createFailed", 0)
    /\ UNCHANGED <<hostVars, tabVars, restoreVars, closing, reportedTabs, content, createCalls,
                   lockVars, clockVars>>

(* createTerminalSession rejected: the catch of lines 91-94 *)
CreateRejected(c) ==
    /\ Idle
    /\ c \in creating
    /\ creating' = creating \ {c}
    /\ content' = IF c.alive THEN [content EXCEPT ![c.tab].error = TRUE] ELSE content
    /\ lastOp' = Op("createFailed", 0)
    /\ UNCHANGED <<hostVars, tabVars, restoreVars, closing, reportedTabs, createCalls,
                   lockVars, clockVars>>

----------------------------------------------------------------------------
(* User events *)

(* click on a tab, lines 565-568 *)
ClickTab(tabId) ==
    /\ Idle
    /\ tabId \in TabIds(tabs)
    /\ switchTab(tabId)
    /\ lastOp' = Op("switchTab", 0)
    /\ UNCHANGED <<hostVars, restoreVars, closing, reportedTabs, lockVars, clockVars>>

(* click on the close button of a tab, lines 601-604 *)
ClickClose(tabId) ==
    /\ Idle
    /\ tabId \in TabIds(tabs)
    /\ closeTab(tabId)
    /\ UNCHANGED <<hostVars, restoreVars, lockVars, clockVars>>

(* click on the '+' button, line 648 *)
ClickAddButton ==
    /\ Idle
    /\ addNewTab
    /\ lastOp' = Op("addButton", sinceAdd)
    /\ UNCHANGED <<hostVars, restoreVars, closing, lockVars, sinceChord>>

(* click on the empty state's 'New Terminal' button, lines 700-717 *)
ClickNewTerminal ==
    /\ Idle
    /\ Len(tabs) = 0
    /\ addNewTab
    /\ lastOp' = Op("newTerminalButton", sinceAdd)
    /\ UNCHANGED <<hostVars, restoreVars, closing, lockVars, sinceChord>>

(* handleKeyDown, modifier+T, lines 486-497 *)
LockEngaged == isCreatingTabRef

LockDelayHalved == LockWindowMs \div 2

LockDelay == LockWindowMs

(* a chord whose discarded repetition starts the lock window again *)
KeyTExtendingLock ==
    /\ Idle
    /\ IF LockEngaged
       THEN /\ lastOp' = Op("keyTDiscarded", sinceChord)
            /\ lockTimers' = {LockDelay}
            /\ UNCHANGED <<tabVars, contentVars, isCreatingTabRef, clockVars, reportedTabs>>
       ELSE /\ isCreatingTabRef' = TRUE
            /\ addNewTab
            /\ lockTimers' = lockTimers \cup {LockDelay}
            /\ sinceChord' = 0
            /\ lastOp' = Op("keyT", sinceChord)
    /\ UNCHANGED <<hostVars, restoreVars, closing>>

KeyT ==
    /\ Idle
    /\ IF LockEngaged
       THEN /\ lastOp' = Op("keyTDiscarded", sinceChord)
            /\ UNCHANGED <<tabVars, contentVars, lockVars, clockVars, reportedTabs>>
       ELSE /\ isCreatingTabRef' = TRUE
            /\ addNewTab
            /\ lockTimers' = lockTimers \cup {LockDelay}
            /\ sinceChord' = 0
            /\ lastOp' = Op("keyT", sinceChord)
    /\ UNCHANGED <<hostVars, restoreVars, closing>>

(* handleKeyDown, modifier+W, lines 500-509 *)
KeyW ==
    /\ Idle
    /\ IF activeTabId # Null /\ Len(tabs) > 0
       THEN closeTab(activeTabId)
       ELSE /\ lastOp' = Op("keyWIgnored", 0)
            /\ UNCHANGED <<tabVars, contentVars, closing, reportedTabs>>
    /\ UNCHANGED <<hostVars, restoreVars, lockVars, clockVars>>

(* the index without the special case of 9 *)
DigitIndexPlain(keyNum, length) == keyNum - 1

(* handleKeyDown, modifier+digit, lines 512-524: the 0-based index a digit names *)
DigitIndex(keyNum, length) == IF keyNum = LastTabDigit THEN length - 1 ELSE keyNum - 1

KeyDigit(d) ==
    /\ Idle
    /\ LET tabIndex == DigitIndex(d, Len(tabs))
       IN  IF tabIndex >= 0 /\ tabIndex < Len(tabs)
           THEN switchTab(tabs[tabIndex + 1].id)
           ELSE UNCHANGED <<tabVars, contentVars>>
    /\ lastOp' = Op("keyDigit", d)
    /\ UNCHANGED <<hostVars, restoreVars, closing, reportedTabs, lockVars, clockVars>>

----------------------------------------------------------------------------
(* Time *)

TimeStep == LockWindowMs \div 2

(* the unlock timeout of lines 493-495 is due *)
LockTimerFires ==
    /\ 0 \in lockTimers
    /\ isCreatingTabRef' = FALSE
    /\ lockTimers' = lockTimers \ {0}
    /\ lastOp' = Op("unlock", 0)
    /\ UNCHANGED <<hostVars, tabVars, restoreVars, closing, reportedTabs, contentVars,
                   clockVars>>

(* TimeStep milliseconds pass *)
Tick ==
    /\ Idle
    /\ \/ sinceChord < LockWindowMs
       \/ sinceAdd < LockWindowMs
       \/ \E t \in lockTimers : t > 0
       \/ ~msElapsed
    /\ lockTimers' = {Max(t - TimeStep, 0) : t \in lockTimers}
    /\ sinceChord' = Min(sinceChord + TimeStep, LockWindowMs)
    /\ sinceAdd' = Min(sinceAdd + TimeStep, LockWindowMs)
    /\ msElapsed' = TRUE
    /\ UNCHANGED <<hostVars, tabVars, restoreVars, closing, reportedTabs, contentVars,
                   isCreatingTabRef, dateNow, lastOp>>

(* one millisecond passes: Date.now() moves on *)
MsElapses ==
    /\ Idle
    /\ ~msElapsed
    /\ msElapsed' = TRUE
    /\ UNCHANGED <<hostVars, tabVars, restoreVars, closing, reportedTabs, contentVars,
                   lockVars, dateNow, sinceChord, sinceAdd, lastOp>>

----------------------------------------------------------------------------
(* Construction *)

TerminalContext == <<"ws:repo", "A">>
OtherContext == <<"ws:repo", "B", ":term1">>

InitialTabSets ==
    { << >>,
      << [id |-> <<"init", 1>>, label |-> <<"repo">>, directory |-> DefaultDirectory,
          isActive |-> TRUE],
         [id |-> <<"init", 2>>, label |-> <<"repo">>, directory |-> DefaultDirectory,
          isActive |-> FALSE] >> }

(* the host actions a host may leave out, and whether setState calls made after
   an await are batched *)
HostProfiles ==
    { [list |-> TRUE, create |-> TRUE, destroy |-> TRUE],
      [list |-> FALSE, create |-> TRUE, destroy |-> TRUE],
      [list |-> TRUE, create |-> TRUE, destroy |-> FALSE],
      [list |-> TRUE, create |-> FALSE, destroy |-> TRUE] }

HostSession(i) ==
    [id |-> i,
     cwd |-> IF i = 1 THEN <<"", "repo", "a">> ELSE EmptyString,
     context |-> IF i % 2 = 1 THEN TerminalContext \o <<":term1">> ELSE OtherContext]

Props(its, showAll, has, batched) ==
    [initialTabs |-> its, showAllTerminals |-> showAll,
     terminalContext |-> TerminalContext, directory |-> DefaultDirectory,
     has |-> has, batched |-> batched]

HostLists == {[i \in 1..n |-> HostSession(i)] : n \in 0..MaxHostSessions}

(* a TerminalTabContent before it is mounted *)
ViewUnmounted ==
    [phase |-> "unmounted", sessionId |-> FALSE, isActive |-> FALSE,
     localSessionId |-> FALSE, isInitialized |-> FALSE, creating |-> FALSE,
     opening |-> 0, instance |-> FALSE, uiCleanup |-> FALSE, subscribed |-> FALSE,
     claimAsked |-> FALSE, replayed |-> 0, error |-> FALSE, refreshOwed |-> FALSE]

(* a GhosttyTerminal before it is mounted: the useState defaults of lines 62-76.
   claimAsked, claimResult, evicted and exitNotified are history fields: whether
   claimTerminalOwnership has been called, what the last call answered, whether
   terminal:ownershipLost was handled with no claim granted since, and whether
   the session's exit was emitted while the component had a session. *)
WindowUnmounted ==
    [pc |-> "unmounted", sessionId |-> FALSE, shouldRenderTerminal |-> TRUE,
     opening |-> 0, instance |-> FALSE, uiCleanup |-> FALSE,
     claimAsked |-> FALSE, claimResult |-> "none", evicted |-> FALSE,
     exitNotified |-> FALSE, error |-> FALSE, forced |-> FALSE,
     isTransitioning |-> FALSE, refreshTimeouts |-> 0, mounted |-> TRUE]

InitView(actionSets) ==
    /\ tabActions \in actionSets
    /\ tabView = ViewUnmounted
    /\ refreshTimers = {}

InitWindows ==
    /\ windows = [w \in 1..MaxWindows |-> WindowUnmounted]
    /\ sessionOwner = 0
    /\ ownershipLost = {}

AllActions ==
    [onTerminalData : {TRUE}, refreshTerminal : {TRUE}, claimTerminalOwnership : {TRUE}]

(* the tabbed panel as constructed with one of these props over one of these hosts *)
InitTabs(propsSet, hostSet, log) ==
    /\ props \in propsSet
    /\ hostSessions \in hostSet
    /\ tabs = props.initialTabs
    /\ activeTabId = Null
    /\ sessionIds = EmptyMap
    /\ restorePhase = "unmounted"
    /\ ourSessions = << >>
    /\ closing = {}
    /\ content = EmptyMap
    /\ creating = {}
    /\ createCalls = 0
    /\ isCreatingTabRef = FALSE
    /\ lockTimers = {}
    /\ dateNow = 0
    /\ msElapsed = TRUE
    /\ sinceChord = LockWindowMs
    /\ sinceAdd = LockWindowMs
    /\ lastOp = IF log THEN [op |-> "init", n |-> 0] ELSE NotRecorded

InitPanel(propsSet, hostSet, log) ==
    /\ InitTabs(propsSet, hostSet, log)
    /\ reportedTabs = NotFollowed
    /\ InitView(AllActions)
    /\ InitWindows

----------------------------------------------------------------------------
(* The tabbed panel: restore, tabs, sessions, under every host profile *)

AllProps ==
    {Props(its, showAll, has, batched) :
        its \in InitialTabSets, showAll \in BOOLEAN, has \in HostProfiles,
        batched \in BOOLEAN}

Init == InitPanel(AllProps, HostLists, FALSE)

Next ==
    \/ Mount
    \/ ListResolveBatched
    \/ ListResolveSetTabs
    \/ RestoreSetSessionIds
    \/ RestoreSetActiveTabId
    \/ ListReject
    \/ \E id \in TabIds(tabs) : ClickTab(id)
    \/ \E id \in TabIds(tabs) : ClickClose(id)
    \/ ClickAddButton
    \/ ClickNewTerminal
    \/ KeyW
    \/ \E d \in 1..LastTabDigit : KeyDigit(d)
    \/ \E r \in closing, ok \in BOOLEAN : DestroySettled(r, ok)
    \/ \E c \in creating : CreateResolved(c)
    \/ \E c \in creating : CreateRejected(c)
    \/ MsElapses

Spec == Init /\ [][Next]_vars

(* C1: in every reachable state of the tabbed panel, a non-empty tab list has
   exactly one tab with isActive = TRUE. *)
C1_ExactlyOneActive ==
    Len(tabs) > 0 => ActiveCount(tabs) = 1

(* C10: no TerminalTabContent of a restored tab ever has a createTerminalSession
   call under way: restored tabs attach to their listed session. *)
C10_RestoredTabsNeverCreate ==
    \A c \in creating : c.tab[1] # "restored"

----------------------------------------------------------------------------
(* Restore alone: the panel is constructed over every small Session Directory
   and context, mounts and restores; the user may add a tab while the listing
   is pending. *)

ContextChoices == { <<"ws:repo", "A">>, <<"ws:repo">>, << >> }

SessionContexts ==
    { Undefined,
      <<"ws:repo", "A", ":term1">>,        \* "ws:repoA:term1"
      <<"ws:repo", "B", ":term1">>,        \* "ws:repoB:term1"
      <<"ws:repo", "A">>,                  \* "ws:repoA"
      <<"ws:repo", "A", "B", ":term1">>,   \* "ws:repoAB:term1"
      <<"ws:repo">> }                      \* "ws:repo"

SessionCwds == { <<"", "repo", "a">>, EmptyString }

ListedSessions ==
    UNION { [1..n -> SessionContexts] : n \in 0..MaxHostSessions }

RestoreHosts ==
    { [i \in DOMAIN ctxs |->
          [id |-> i, cwd |-> IF i % 2 = 1 THEN <<"", "repo", "a">> ELSE EmptyString,
           context |-> ctxs[i]]] : ctxs \in ListedSessions }

RestoreInitialTabSets ==
    InitialTabSets \cup
    { << [id |-> <<"init", 1>>, label |-> <<"repo">>, directory |-> DefaultDirectory,
          isActive |-> FALSE],
         [id |-> <<"init", 2>>, label |-> <<"repo">>, directory |-> DefaultDirectory,
          isActive |-> TRUE] >> }

RestoreProps ==
    { [Props(its, showAll, [list |-> list, create |-> TRUE, destroy |-> TRUE], batched)
         EXCEPT !.terminalContext = ctx] :
        its \in RestoreInitialTabSets, showAll \in BOOLEAN, list \in BOOLEAN,
        batched \in BOOLEAN, ctx \in ContextChoices }

InitRestore == InitPanel(RestoreProps, RestoreHosts, TRUE)

NextRestore ==
    \/ Mount
    \/ ListResolveBatched
    \/ ListResolveSetTabs
    \/ RestoreSetSessionIds
    \/ RestoreSetActiveTabId
    \/ ListReject
    \/ restorePhase = "listing" /\ ClickAddButton
    \/ \E c \in creating : CreateResolved(c)
    \/ \E c \in creating : CreateRejected(c)

SpecRestore == InitRestore /\ [][NextRestore]_vars

(* the state in which restoreSessions has just run to its end *)
RestoreJustDone ==
    /\ restorePhase = "done"
    /\ lastOp.op \in {"restore", "mount"}

(* the claim's own reading of "survives filtering" *)
HasPrefix(str, prefix) ==
    /\ Len(str) >= Len(prefix)
    /\ SubSeq(str, 1, Len(prefix)) = prefix

Survivors ==
    {i \in 1..Len(hostSessions) :
        \/ props.showAllTerminals
        \/ /\ hostSessions[i].context # Undefined
           /\ HasPrefix(hostSessions[i].context, props.terminalContext)}

RestoredTabIndexes == {i \in 1..Len(tabs) : tabs[i].id[1] = "restored"}

(* C8: with no initial tabs, when the listing has been answered and restore is
   done, the restored tabs are in one-to-one correspondence with the listed
   sessions whose context starts with terminalContext (all listed sessions
   under showAllTerminals; none when there is no listing action). *)
C8_RestoredTabsMatchFilter ==
    (RestoreJustDone /\ lastOp.op = "restore" /\ Len(props.initialTabs) = 0) =>
        /\ Cardinality(RestoredTabIndexes) = Cardinality(Survivors)
        /\ {tabs[i].id : i \in RestoredTabIndexes}
              = {<<"restored", hostSessions[i].id>> : i \in Survivors}

(* C8 witness: context "ws:repoA", sessions "ws:repoA:term1" and
   "ws:repoB:term1", no showAllTerminals: one restored tab, for the first. *)
C8_Witness ==
    /\ RestoreJustDone /\ lastOp.op = "restore"
    /\ Len(props.initialTabs) = 0
    /\ ~props.showAllTerminals
    /\ props.terminalContext = <<"ws:repo", "A">>
    /\ Len(hostSessions) = 2
    /\ hostSessions[1].context = <<"ws:repo", "A", ":term1">>
    /\ hostSessions[2].context = <<"ws:repo", "B", ":term1">>
    /\ Len(tabs) = 1
    /\ tabs[1].id = <<"restored", 1>>

(* what the claim calls the initial tab set's active tab *)
InitialTabsActive ==
    LET its == props.initialTabs
        marked == {i \in 1..Len(its) : its[i].isActive}
    IN  IF marked = {} THEN its[1].id
        ELSE its[CHOOSE i \in marked : \A j \in marked : i <= j].id

NothingSurvives == Survivors = {} \/ ~props.has.list

(* C9 (as amended): when restoreSessions runs to its end with no initial tabs
   and no surviving session, it creates no tab: the tab list, the active id and
   the mounted tab contents are what they were (empty unless the user added a
   tab meanwhile); with initial tabs supplied it ends with the initial tab set
   as the tab list and its active (else first) tab as the active id. *)
C9_RestoreFallback ==
    [][ (restorePhase # "done" /\ restorePhase' = "done"
         /\ lastOp'.op \in {"restore", "mount"}) =>
          /\ Len(props.initialTabs) > 0 =>
                /\ tabs' = props.initialTabs
                /\ activeTabId' = InitialTabsActive
          /\ (Len(props.initialTabs) = 0 /\ NothingSurvives) =>
                /\ tabs' = tabs
                /\ activeTabId' = activeTabId
                /\ createCalls' = createCalls ]_vars

(* C9 witness: sessions are listed, none survives the filter, no initial tabs:
   restore is done and the tab list is empty. *)
C9_Witness ==
    /\ RestoreJustDone /\ lastOp.op = "restore"
    /\ Len(props.initialTabs) = 0
    /\ Len(hostSessions) > 0
    /\ Survivors = {}
    /\ tabs = << >>
    /\ activeTabId = Null

(* C9 as claimed: with no initial tabs and no surviving session, restore ends
   with exactly one fresh, active tab bound to the default directory. *)
C9_Original ==
    (RestoreJustDone /\ Len(props.initialTabs) = 0 /\ NothingSurvives) =>
        /\ Len(tabs) = 1
        /\ tabs[1].isActive
        /\ tabs[1].directory = props.directory
        /\ activeTabId = tabs[1].id

----------------------------------------------------------------------------
(* The tab manager alone: a host without createTerminalSession, so that tabs
   are bound to sessions by restore only. *)

(* closing tabs: up to MaxTabs restored tabs, closed through
   destroyTerminalSession when the host has it and at once when it has not;
   switch and close, by click and by modifier+W *)
CloseProps ==
    {Props(<< >>, TRUE, [list |-> TRUE, create |-> FALSE, destroy |-> destroy], TRUE) :
        destroy \in BOOLEAN}

CloseHosts == {[i \in 1..n |-> HostSession(i)] : n \in 0..MaxTabs}

InitClose == InitPanel(CloseProps, CloseHosts, TRUE)

NextClose ==
    \/ Mount
    \/ ListResolveBatched
    \/ \E id \in TabIds(tabs) : ClickTab(id)
    \/ \E id \in TabIds(tabs) : ClickClose(id)
    \/ KeyW
    \/ \E r \in closing, ok \in BOOLEAN : DestroySettled(r, ok)

SpecClose == InitClose /\ [][NextClose]_vars

(* switching by modifier+digit: initial or restored tabs over a host without
   destroyTerminalSession; add, close and the nine digits *)
KeysProps ==
    {Props(its, TRUE, [list |-> TRUE, create |-> FALSE, destroy |-> FALSE], TRUE) :
        its \in InitialTabSets}

InitKeys == InitPanel(KeysProps, HostLists, TRUE)

NextKeys ==
    \/ Mount
    \/ ListResolveBatched
    \/ \E id \in TabIds(tabs) : ClickClose(id)
    \/ ClickAddButton
    \/ \E d \in 1..LastTabDigit : KeyDigit(d)
    \/ MsElapses

SpecKeys == InitKeys /\ [][NextKeys]_vars

(* a close request that does not await: no session bound, or no destroy action *)
ClosesAtOnce(tabId) ==
    /\ \/ ClickClose(tabId)
       \/ KeyW /\ activeTabId = tabId /\ Len(tabs) > 0
    /\ ~(tabId \in DOMAIN sessionIds /\ props.has.destroy)

(* the tabs left when tabId is closed, in their order *)
RemainingIds(tabId) ==
    LET rest == SelectSeq(tabs, LAMBDA t : t.id # tabId)
    IN  [i \in 1..Len(rest) |-> rest[i].id]

ActivatesLastRemaining(tabId, activeAt) ==
    LET rest == RemainingIds(tabId)
    IN  (activeAt = tabId /\ tabId \in TabIds(tabs) /\ Len(rest) > 0) =>
            /\ [i \in 1..Len(tabs') |-> tabs'[i].id] = rest
            /\ tabs'[Len(rest)].isActive
            /\ activeTabId' = rest[Len(rest)]

(* C4 (as amended): when a close completes for the tab that was the active tab
   as closeTab was called, and tabs remain, the LAST tab of the remaining list
   becomes active and activeTabId is its id, whatever the closed tab's index. *)
C4_CloseActivatesLast ==
    [][ Len(tabs') < Len(tabs) =>
          /\ \A id \in TabIds(tabs) :
                ClosesAtOnce(id) => ActivatesLastRemaining(id, activeTabId)
          /\ \A r \in closing, ok \in BOOLEAN :
                DestroySettled(r, ok) => ActivatesLastRemaining(r.tab, r.activeAt)
      ]_vars

(* C4 witness: the active tab at index 0 of three was closed; the tab now last,
   not the tab now first, is the active one. *)
C4_Witness ==
    /\ lastOp.op \in {"closed", "closedDestroyFailed"}
    /\ lastOp.n = 1
    /\ Len(tabs) = 2
    /\ tabs[2].isActive
    /\ ~tabs[1].isActive
    /\ activeTabId = tabs[2].id

ActivatesPrevious(tabId, activeAt) ==
    LET i == IndexOf(tabs, tabId)
        N == Len(tabs)
        rest == RemainingIds(tabId)
    IN  (activeAt = tabId /\ activeTabId = tabId /\ i > 0 /\ tabs[i].isActive
         /\ N > 1 /\ Len(rest) = N - 1) =>
            /\ tabs'[Max(1, i - 1)].isActive
            /\ activeTabId' = rest[Max(1, i - 1)]

(* C4 as claimed: closing the active tab at (0-based) index i of N > 1 tabs
   activates the tab at index max(0, i-1) of the resulting list. *)
C4_Original ==
    [][ Len(tabs') < Len(tabs) =>
          /\ \A id \in TabIds(tabs) :
                ClosesAtOnce(id) => ActivatesPrevious(id, activeTabId)
          /\ \A r \in closing, ok \in BOOLEAN :
                DestroySettled(r, ok) => ActivatesPrevious(r.tab, r.activeAt)
      ]_vars

(* C7: modifier+digit d with N tabs: d in 1..8 switches to the tab at index d-1
   when d <= N and changes nothing otherwise; 9 switches to the last tab when
   N >= 1; with N = 0 nothing changes. *)
C7_DigitSwitch ==
    [][ \A d \in 1..LastTabDigit :
          KeyDigit(d) =>
            LET N == Len(tabs)
                target == IF d = 9 THEN N ELSE d
            IN  IF N >= 1 /\ target <= N
                THEN /\ activeTabId' = tabs[target].id
                     /\ Len(tabs') = N
                     /\ \A i \in 1..N :
                           tabs'[i] = [tabs[i] EXCEPT
                                         !.isActive = (tabs[i].id = tabs[target].id)]
                ELSE /\ tabs' = tabs
                     /\ activeTabId' = activeTabId
      ]_vars

(* C7 witness: modifier+9 was pressed with three tabs and the third is active. *)
C7_Witness ==
    /\ lastOp = [op |-> "keyDigit", n |-> 9]
    /\ Len(tabs) = 3
    /\ tabs[3].isActive
    /\ ~tabs[1].isActive /\ ~tabs[2].isActive
    /\ activeTabId = tabs[3].id

----------------------------------------------------------------------------
(* The new-tab lock: a panel with no initial tabs over a host without a
   listing action; key chords, buttons and time. *)

LockProps ==
    {Props(<< >>, FALSE, [list |-> FALSE, create |-> TRUE, destroy |-> FALSE], TRUE)}

InitLock == InitPanel(LockProps, {<< >>}, TRUE)

NextLock ==
    \/ Mount
    \/ KeyT
    \/ ClickAddButton
    \/ ClickNewTerminal
    \/ \E id \in TabIds(tabs) : ClickTab(id)
    \/ \E id \in TabIds(tabs) : ClickClose(id)
    \/ \E c \in creating : CreateResolved(c)
    \/ LockTimerFires
    \/ Tick
    \/ MsElapses

SpecLock == InitLock /\ [][NextLock]_vars

(* C5: a modifier+T pressed less than LockWindowMs after an accepted modifier+T
   is discarded: it adds no tab and starts no session, whatever happened in
   between. *)
C5_SecondChordDiscarded ==
    [][ (KeyT /\ sinceChord < LockWindowMs) =>
            /\ tabs' = tabs
            /\ activeTabId' = activeTabId
            /\ createCalls' = createCalls ]_vars

(* C5 witness: a chord TimeStep ms after an accepted chord was discarded; the
   panel has the one tab of the first chord. *)
C5_Witness ==
    /\ lastOp = [op |-> "keyTDiscarded", n |-> TimeStep]
    /\ Len(tabs) = 1
    /\ isCreatingTabRef

ButtonClick == ClickAddButton \/ ClickNewTerminal

(* C6 (as amended): the lock guards the key chord only.  A modifier+T adds a
   tab exactly when the lock is not engaged; a click on the '+' button or on
   the empty state's button always adds one tab, engaged lock or not, and
   leaves the lock and its timer alone. *)
C6_LockGuardsChordOnly ==
    [][ /\ KeyT => (Len(tabs') = Len(tabs) + 1 <=> ~isCreatingTabRef)
        /\ KeyT => (Len(tabs') = Len(tabs) <=> isCreatingTabRef)
        /\ ButtonClick =>
              /\ Len(tabs') = Len(tabs) + 1
              /\ isCreatingTabRef' = isCreatingTabRef
              /\ lockTimers' = lockTimers ]_vars

(* C6 witness: the '+' button was clicked less than LockWindowMs after the
   previous new tab while the chord's lock was engaged, and there are two tabs. *)
C6_Witness ==
    /\ lastOp.op = "addButton"
    /\ lastOp.n < LockWindowMs
    /\ isCreatingTabRef
    /\ sinceChord < LockWindowMs
    /\ Len(tabs) = 2

(* C6 as claimed: a new-tab trigger from any entry point less than LockWindowMs
   after the previous new tab adds no tab. *)
C6_Original ==
    [][ ((KeyT \/ ButtonClick) /\ sinceAdd < LockWindowMs) => tabs' = tabs ]_vars

----------------------------------------------------------------------------
(* One TerminalTabContent, lines 27-300 of TabbedGhosttyTerminal.tsx, under a
   parent that mounts it, toggles isActive (switchTab), hands it the session id
   it reported (handleSessionCreated) and unmounts it (closeTab). *)

Timer(kind, delay) == [kind |-> kind, left |-> delay]

(* The effects of one commit, old being the committed props and state before
   it and new after it (all is TRUE for the first commit): cleanups of the
   effects whose dependencies changed, then their bodies, in source order.
   Yields the new component and timers. *)
RunEffects(old, new, timers, all) ==
    LET uiChanged == all \/ old.localSessionId # new.localSessionId
                         \/ old.isActive # new.isActive
        subChanged == all \/ old.localSessionId # new.localSessionId
                          \/ old.isInitialized # new.isInitialized
                          \/ old.sessionId # new.sessionId
        actChanged == all \/ old.isActive # new.isActive
                          \/ old.localSessionId # new.localSessionId
        \* cleanups: lines 172-182 and 210-215
        instance1 == IF uiChanged /\ old.uiCleanup THEN FALSE ELSE old.instance
        timers1 == IF subChanged THEN {t \in timers : t.kind # "restored"} ELSE timers
        \* line 107-108, 170
        uiRuns == new.localSessionId /\ new.isActive /\ ~instance1
        \* lines 187-197
        subscribes == new.localSessionId /\ new.isInitialized /\ tabActions.onTerminalData
        \* lines 202-208
        restoredTimer == IF subChanged /\ subscribes /\ new.sessionId
                            /\ tabActions.refreshTerminal
                         THEN {Timer("restored", RefreshRestoredMs)} ELSE {}
        \* lines 220-235
        activateTimer == IF actChanged /\ new.isActive /\ instance1
                            /\ new.localSessionId /\ tabActions.refreshTerminal
                         THEN {Timer("activate", RefreshOnActivateMs)} ELSE {}
        \* history: the tab has become the active tab with a session, on a host
        \* with refreshTerminal, and no refreshTerminal call was made since
        becameActive == /\ new.isActive /\ new.localSessionId
                        /\ (all \/ ~(old.isActive /\ old.localSessionId))
                        /\ tabActions.refreshTerminal
    IN  [view |-> [new EXCEPT
                     !.refreshOwed = old.refreshOwed \/ becameActive,
                     !.instance = instance1,
                     !.replayed = IF instance1 THEN old.replayed ELSE 0,
                     !.opening = IF uiChanged /\ uiRuns THEN old.opening + 1
                                 ELSE old.opening,
                     !.uiCleanup = IF uiChanged THEN uiRuns ELSE old.uiCleanup,
                     !.subscribed = IF subChanged THEN subscribes ELSE old.subscribed],
         timers |-> timers1 \cup restoredTimer \cup activateTimer]

(* a commit is followed only while the count of pending term.open calls fits *)
Commit(old, new, timers, all) ==
    LET after == RunEffects(old, new, timers, all)
    IN  /\ after.view.opening <= MaxOpening
        /\ tabView' = after.view
        /\ refreshTimers' = after.timers

(* first render and mount effects (lines 44-103), then the render caused by the
   state the mount effect set *)
ViewMount(sessionId, isActive) ==
    /\ tabView.phase = "unmounted"
    /\ LET first == [ViewUnmounted EXCEPT !.phase = "mounted",
                                          !.sessionId = sessionId,
                                          !.isActive = isActive,
                                          !.localSessionId = sessionId]
           one == RunEffects(ViewUnmounted, first, refreshTimers, TRUE)
       IN  IF sessionId
           THEN Commit(one.view,
                       [one.view EXCEPT
                          !.isInitialized = TRUE,
                          !.claimAsked = tabActions.claimTerminalOwnership],
                       one.timers, FALSE)
           ELSE /\ tabView' = [one.view EXCEPT !.creating = TRUE]
                /\ refreshTimers' = one.timers
    /\ UNCHANGED <<tabbedVars, tabActions, windowVars>>

(* createTerminalSession resolved, lines 81-85; the parent's handleSessionCreated
   (line 464) hands the id back as the sessionId prop *)
ViewCreateResolved ==
    /\ tabView.creating
    /\ IF tabView.phase = "mounted"
       THEN Commit(tabView, [tabView EXCEPT !.creating = FALSE,
                                            !.localSessionId = TRUE,
                                            !.isInitialized = TRUE,
                                            !.sessionId = TRUE,
                                            !.claimAsked =
                                               tabActions.claimTerminalOwnership],
                   refreshTimers, FALSE)
       ELSE /\ tabView' = [tabView EXCEPT !.creating = FALSE]
            /\ UNCHANGED refreshTimers
    /\ UNCHANGED <<tabbedVars, tabActions, windowVars>>

(* the parent renders the component with another isActive (line 691) *)
ViewSetActive(isActive) ==
    /\ tabView.phase = "mounted"
    /\ tabView.isActive # isActive
    /\ Commit(tabView, [tabView EXCEPT !.isActive = isActive], refreshTimers, FALSE)
    /\ UNCHANGED <<tabbedVars, tabActions, windowVars>>

(* an open that sets no refresh timeout *)
ViewOpenResolvedWithoutRefresh ==
    /\ tabView.opening > 0
    /\ tabView' = [tabView EXCEPT !.opening = @ - 1, !.instance = TRUE,
                                  !.replayed = 0]
    /\ UNCHANGED <<tabbedVars, tabActions, refreshTimers, windowVars>>

(* `await term.open(...)` resolved, lines 126-163: the instance is stored
   (line 129) whatever happened to the component meanwhile; the refresh timeout
   of lines 154-162 is set if line 152, observe(terminalRef.current), did not
   throw, that is if the component's element is still there (an inactive tab
   keeps its element, a closed tab does not) *)
ViewOpenResolved ==
    /\ tabView.opening > 0
    /\ tabView' = [tabView EXCEPT !.opening = @ - 1, !.instance = TRUE,
                                  !.replayed = 0]
    /\ refreshTimers' = refreshTimers \cup
          (IF tabActions.refreshTerminal /\ tabView.phase = "mounted"
           THEN {Timer("open", RefreshAfterOpenMs)} ELSE {})
    /\ UNCHANGED <<tabbedVars, tabActions, windowVars>>

(* the parent drops the tab: every effect's cleanup runs *)
ViewUnmount ==
    /\ tabView.phase = "mounted"
    /\ tabView' = [tabView EXCEPT
                     !.phase = "gone",
                     !.instance = IF tabView.uiCleanup THEN FALSE ELSE @,
                     !.replayed = IF tabView.uiCleanup THEN 0 ELSE @,
                     !.uiCleanup = FALSE,
                     !.subscribed = FALSE]
    /\ refreshTimers' = {t \in refreshTimers : t.kind # "restored"}
    /\ UNCHANGED <<tabbedVars, tabActions, windowVars>>

(* the host answers refreshTerminal by emitting the session's recent buffer
   again through the component's data subscription *)
BufferReEmitted(view) == view.subscribed

(* the component's data callback (lines 193-197) writes what it receives to the
   terminal instance if there is one *)
ReplayWritten(view) == BufferReEmitted(view) /\ view.instance

(* a refresh timeout is due: actions.refreshTerminal(localSessionId) is called *)
RefreshTimerFires(t) ==
    /\ t \in refreshTimers
    /\ t.left = 0
    /\ refreshTimers' = refreshTimers \ {t}
    /\ tabView' = [tabView EXCEPT
                     !.refreshOwed = FALSE,
                     !.replayed = IF ReplayWritten(tabView)
                                  THEN Min(@ + 1, MaxReplays) ELSE @]
    /\ UNCHANGED <<tabbedVars, tabActions, windowVars>>

(* a refresh that breaks the tab when it fails *)
RefreshRejectedEscalating(t) ==
    /\ t \in refreshTimers
    /\ t.left = 0
    /\ refreshTimers' = refreshTimers \ {t}
    /\ tabView' = [tabView EXCEPT !.error = TRUE, !.subscribed = FALSE,
                                  !.refreshOwed = FALSE]
    /\ lastOp' = Op("refreshRejected", 0)
    /\ UNCHANGED <<props, hostSessions, tabVars, restoreVars, closing, reportedTabs, contentVars,
                   lockVars, clockVars, tabActions, windowVars>>

(* a refresh timeout is due and the refreshTerminal call rejects: the catch of
   lines 157-161, the .catch of lines 204-206, the catch of lines 230-234 *)
RefreshRejected(t) ==
    /\ t \in refreshTimers
    /\ t.left = 0
    /\ refreshTimers' = refreshTimers \ {t}
    /\ tabView' = [tabView EXCEPT !.refreshOwed = FALSE]
    /\ lastOp' = Op("refreshRejected", 0)
    /\ UNCHANGED <<props, hostSessions, tabVars, restoreVars, closing, reportedTabs, contentVars,
                   lockVars, clockVars, tabActions, windowVars>>

ViewTimeStep == RefreshRestoredMs

(* ViewTimeStep milliseconds pass and no timeout is overdue *)
ViewTick ==
    /\ refreshTimers # {}
    /\ \A t \in refreshTimers : t.left > 0
    /\ refreshTimers' = {[t EXCEPT !.left = Max(t.left - ViewTimeStep, 0)] :
                            t \in refreshTimers}
    /\ UNCHANGED <<tabbedVars, tabActions, tabView, windowVars>>

ActionSets ==
    [onTerminalData : BOOLEAN, refreshTerminal : BOOLEAN,
     claimTerminalOwnership : BOOLEAN]

InitContent ==
    /\ InitTabs(LockProps, {<< >>}, TRUE)
    /\ reportedTabs = NotFollowed
    /\ InitView(ActionSets)
    /\ InitWindows

NextContent ==
    \/ \E sessionId \in BOOLEAN, isActive \in BOOLEAN : ViewMount(sessionId, isActive)
    \/ ViewCreateResolved
    \/ \E isActive \in BOOLEAN : ViewSetActive(isActive)
    \/ ViewOpenResolved
    \/ ViewUnmount
    \/ \E t \in refreshTimers : RefreshTimerFires(t)
    \/ \E t \in refreshTimers : RefreshRejected(t)
    \/ ViewTick

SpecContent == InitContent /\ [][NextContent]_vars

(* C3: whenever a refresh timeout of a tab fires and refreshTerminal is called,
   the tab holds a live onTerminalData subscription for its session. *)
C3_RefreshOnlyWhileSubscribed ==
    [][ \A t \in refreshTimers : RefreshTimerFires(t) => tabView.subscribed ]_vars

----------------------------------------------------------------------------
(* Two windows, each with a GhosttyTerminal on the same session, and the
   Ownership Arbiter between them. *)

(* Ownership Arbiter, claimOwnership(sessionId, force): granted when the
   session is unowned or owned by the claimant, or when forced *)
ClaimGrantedUnforced(w, force) == sessionOwner \in {0, w}

ClaimGranted(w, force) == sessionOwner \in {0, w} \/ force

(* the OwnershipResult of the claim: success, or the reason of the refusal *)
ClaimResult(w, force) ==
    IF ClaimGranted(w, force) THEN "success" ELSE "owned-elsewhere"

(* the claimant's history after the claim was answered *)
Answered(w, force, rec) ==
    [rec EXCEPT !.claimResult = ClaimResult(w, force),
                !.evicted = IF ClaimGranted(w, force) THEN FALSE ELSE @]

OwnerAfterClaim(w, force) == IF ClaimGranted(w, force) THEN w ELSE sessionOwner

(* the eviction notification a granted claim sends to the owner it displaces *)
LostAfterClaim(w, force) ==
    IF ClaimGranted(w, force) /\ sessionOwner \notin {0, w}
    THEN ownershipLost \cup {sessionOwner}
    ELSE ownershipLost

(* checkOwnership(sessionId), as window w sees it:
   `status.ownedByWindowId && !status.ownedByThisWindow` *)
OwnedElsewhere(w) == sessionOwner # 0 /\ sessionOwner # w

(* the terminal UI effect, lines 212-302, after a commit that changed
   sessionId or shouldRenderTerminal from old to new *)
WindowEffects(old, new) ==
    LET changed == old.sessionId # new.sessionId
                   \/ old.shouldRenderTerminal # new.shouldRenderTerminal
        instance1 == IF changed /\ old.uiCleanup THEN FALSE ELSE old.instance
        runs == new.sessionId /\ new.shouldRenderTerminal
    IN  [new EXCEPT
           !.instance = instance1,
           !.opening = IF changed /\ runs THEN old.opening + 1 ELSE old.opening,
           !.uiCleanup = IF changed THEN runs ELSE old.uiCleanup]

WindowCommit(w, new) ==
    LET after == WindowEffects(windows[w], new)
    IN  /\ after.opening <= MaxOpening
        /\ windows' = [windows EXCEPT ![w] = after]

(* the force argument of initTerminal's claim: a mount that takes the session *)
InitClaimForced == TRUE

(* the force argument of initTerminal's claim, line 152:
   claimTerminalOwnership(id) *)
InitClaimForce == FALSE

(* the force argument of handleTakeControl's claim, line 95:
   claimTerminalOwnership(sessionId, true) *)
TakeControlForce == TRUE

(* mount effect up to `await createTerminalSession`, lines 111-127 *)
WindowMount(w) ==
    /\ windows[w].pc = "unmounted"
    /\ windows' = [windows EXCEPT ![w].pc = "creating"]
    /\ UNCHANGED <<tabbedVars, viewVars, sessionOwner, ownershipLost>>

(* createTerminalSession resolved with the session: setSessionId, then
   `await checkTerminalOwnership`, lines 129-135 *)
WindowSessionCreated(w) ==
    /\ windows[w].pc = "creating"
    /\ IF windows[w].mounted
       THEN WindowCommit(w, [windows[w] EXCEPT !.pc = "checking", !.sessionId = TRUE])
       ELSE \* `if (!mounted) return`, line 128
            windows' = [windows EXCEPT ![w].pc = "idle"]
    /\ UNCHANGED <<tabbedVars, viewVars, sessionOwner, ownershipLost>>

(* checkTerminalOwnership resolved, lines 136-153 *)
WindowChecked(w) ==
    /\ windows[w].pc = "checking"
    /\ IF ~windows[w].mounted
       THEN \* `if (!mounted) return`, line 135
            windows' = [windows EXCEPT ![w].pc = "idle"]
       ELSE IF OwnedElsewhere(w)
       THEN WindowCommit(w, [windows[w] EXCEPT !.pc = "idle",
                                               !.shouldRenderTerminal = FALSE])
       ELSE windows' = [windows EXCEPT ![w].pc = "claiming",
                                       ![w].claimAsked = TRUE,
                                       ![w].forced = InitClaimForce]
    /\ UNCHANGED <<tabbedVars, viewVars, sessionOwner, ownershipLost>>

(* claimTerminalOwnership(id) answered; its result is not read, lines 152-154 *)
WindowClaimed(w) ==
    /\ windows[w].pc = "claiming"
    /\ sessionOwner' = OwnerAfterClaim(w, InitClaimForce)
    /\ ownershipLost' = LostAfterClaim(w, InitClaimForce)
    /\ WindowCommit(w, [Answered(w, InitClaimForce, windows[w])
                            EXCEPT !.pc = "idle", !.shouldRenderTerminal = TRUE])
    /\ UNCHANGED <<tabbedVars, viewVars>>

(* `await term.open(...)` resolved, lines 234-285: the instance is stored, and
   the refresh timeout is set or, without refreshTerminal, the transitioning
   state is cleared *)
WindowOpenResolved(w) ==
    /\ windows[w].opening > 0
    /\ IF tabActions.refreshTerminal
       THEN /\ windows[w].refreshTimeouts < MaxRefreshTimeouts
            /\ windows' = [windows EXCEPT ![w].opening = @ - 1,
                                          ![w].instance = TRUE,
                                          ![w].refreshTimeouts = @ + 1]
       ELSE windows' = [windows EXCEPT ![w].opening = @ - 1,
                                       ![w].instance = TRUE,
                                       ![w].isTransitioning = FALSE]
    /\ UNCHANGED <<tabbedVars, viewVars, sessionOwner, ownershipLost>>

(* a refresh timeout whose callback leaves the transitioning state alone *)
WindowRefreshSettledKeepingTransition(w) ==
    /\ windows[w].refreshTimeouts > 0
    /\ windows' = [windows EXCEPT ![w].refreshTimeouts = @ - 1]
    /\ UNCHANGED <<tabbedVars, viewVars, sessionOwner, ownershipLost>>

(* a refresh timeout fired and refreshTerminal resolved or rejected, lines
   268-277: either way setIsTransitioning(false) *)
WindowRefreshSettled(w) ==
    /\ windows[w].refreshTimeouts > 0
    /\ windows' = [windows EXCEPT ![w].refreshTimeouts = @ - 1,
                                  ![w].isTransitioning = FALSE]
    /\ UNCHANGED <<tabbedVars, viewVars, sessionOwner, ownershipLost>>

(* the user clicks "take control" on the overlay, whose button is rendered
   while the panel is not transitioning (lines 399-430): handleTakeControl up
   to its await, lines 87-94 *)
WindowTakeControl(w) ==
    /\ windows[w].pc = "idle"
    /\ windows[w].sessionId
    /\ ~windows[w].shouldRenderTerminal
    /\ ~windows[w].isTransitioning
    /\ windows' = [windows EXCEPT ![w].pc = "taking", ![w].claimAsked = TRUE,
                                  ![w].forced = TakeControlForce,
                                  ![w].isTransitioning = TRUE]
    /\ UNCHANGED <<tabbedVars, viewVars, sessionOwner, ownershipLost>>

(* claimTerminalOwnership(sessionId, true) answered, lines 95-100 *)
WindowTookControl(w) ==
    /\ windows[w].pc = "taking"
    /\ sessionOwner' = OwnerAfterClaim(w, TakeControlForce)
    /\ ownershipLost' = LostAfterClaim(w, TakeControlForce)
    /\ WindowCommit(w, [Answered(w, TakeControlForce, windows[w])
                            EXCEPT !.pc = "idle", !.shouldRenderTerminal = TRUE])
    /\ UNCHANGED <<tabbedVars, viewVars>>

(* terminal:ownershipLost reaches window w, lines 186-198 *)
OwnershipLostDelivered(w) ==
    /\ w \in ownershipLost
    /\ ownershipLost' = ownershipLost \ {w}
    /\ IF windows[w].sessionId
       THEN WindowCommit(w, [windows[w] EXCEPT !.shouldRenderTerminal = FALSE,
                                               !.evicted = TRUE])
       ELSE UNCHANGED windows
    /\ UNCHANGED <<tabbedVars, viewVars, sessionOwner>>

InitOwner ==
    /\ InitTabs(LockProps, {<< >>}, FALSE)
    /\ reportedTabs = NotFollowed
    /\ InitView(AllActions)
    /\ InitWindows

NextOwner ==
    \/ \E w \in 1..MaxWindows : WindowMount(w)
    \/ \E w \in 1..MaxWindows : WindowSessionCreated(w)
    \/ \E w \in 1..MaxWindows : WindowChecked(w)
    \/ \E w \in 1..MaxWindows : WindowClaimed(w)
    \/ \E w \in 1..MaxWindows : WindowOpenResolved(w)
    \/ \E w \in 1..MaxWindows : WindowRefreshSettled(w)
    \/ \E w \in 1..MaxWindows : WindowTakeControl(w)
    \/ \E w \in 1..MaxWindows : WindowTookControl(w)
    \/ \E w \in 1..MaxWindows : OwnershipLostDelivered(w)

SpecOwner == InitOwner /\ [][NextOwner]_vars

(* a window treats itself as the writer: it renders the terminal and holds a
   live terminal instance forwarding input and showing output *)
IsWriter(w) ==
    /\ windows[w].sessionId
    /\ windows[w].shouldRenderTerminal
    /\ windows[w].instance

(* C2: at every instant at most one window treats itself as the writer of the
   session. *)
C2_AtMostOneWriter ==
    Cardinality({w \in 1..MaxWindows : IsWriter(w)}) <= 1

----------------------------------------------------------------------------
(* the surviving sessions, in the order they were listed *)
SurvivorSeq ==
    SelectSeq(hostSessions,
              LAMBDA x : \/ props.showAllTerminals
                         \/ /\ x.context # Undefined
                            /\ HasPrefix(x.context, props.terminalContext))

(* C11: when restore ends having restored sessions (no initial tabs, at least
   one survivor), the tab list has one tab per surviving session in listing
   order, the tab-to-session map binds each of these tabs to its session's id
   and nothing else, the first tab is the only active one and activeTabId is
   its id. *)
C11_RestoredTabsInOrder ==
    (RestoreJustDone /\ lastOp.op = "restore" /\ Len(props.initialTabs) = 0
     /\ Len(SurvivorSeq) > 0) =>
        /\ Len(tabs) = Len(SurvivorSeq)
        /\ \A i \in 1..Len(tabs) :
              /\ tabs[i].id = <<"restored", SurvivorSeq[i].id>>
              /\ tabs[i].id \in DOMAIN sessionIds
              /\ sessionIds[tabs[i].id] = SurvivorSeq[i].id
              /\ tabs[i].isActive <=> i = 1
        /\ DOMAIN sessionIds = TabIds(tabs)
        /\ activeTabId = tabs[1].id

(* C11 witness: two sessions survived; restore is done with their two tabs,
   the first active. *)
C11_Witness ==
    /\ RestoreJustDone /\ lastOp.op = "restore"
    /\ Len(props.initialTabs) = 0
    /\ ~props.showAllTerminals
    /\ Len(SurvivorSeq) = 2
    /\ Len(tabs) = 2
    /\ tabs[1].isActive /\ ~tabs[2].isActive
    /\ sessionIds[tabs[2].id] = SurvivorSeq[2].id

----------------------------------------------------------------------------
(* C12: a non-forced claim on a session owned by another window is answered
   'owned-elsewhere' and leaves the owner unchanged; a forced claim is answered
   with success and makes the claimant the owner; a claim on an unowned session
   is answered with success and makes the claimant the owner. *)
C12_ClaimOutcome ==
    [][ \A w \in 1..MaxWindows :
          /\ (WindowClaimed(w) /\ OwnedElsewhere(w)) =>
                /\ windows'[w].claimResult = "owned-elsewhere"
                /\ sessionOwner' = sessionOwner
          /\ (WindowClaimed(w) /\ sessionOwner = 0) =>
                /\ windows'[w].claimResult = "success"
                /\ sessionOwner' = w
          /\ WindowTookControl(w) =>
                /\ windows'[w].claimResult = "success"
                /\ sessionOwner' = w ]_vars

C12_Witness ==
    \E w \in 1..MaxWindows, v \in 1..MaxWindows :
        /\ w # v
        /\ windows[w].claimResult = "owned-elsewhere"
        /\ windows[v].claimResult = "success"
        /\ windows[v].pc = "idle"
        /\ ~windows[v].evicted
        /\ sessionOwner = v
----------------------------------------------------------------------------
(* C13: a window that has handled terminal:ownershipLost, and has had no claim
   granted since, shows the take-control overlay and holds no terminal
   instance: none that would forward the user's input, none that output is
   written to. *)
C13_EvictedHoldsNoTerminal ==
    \A w \in 1..MaxWindows :
        windows[w].evicted =>
            /\ ~windows[w].shouldRenderTerminal
            /\ ~windows[w].instance
----------------------------------------------------------------------------
(* What a TerminalTabContent has subscribed to of the ownership-lost signal:
   its only subscription is the one to onTerminalData (lines 186-216); it calls
   neither actions.onOwnershipLost nor events.on, and the panel binds its
   events prop to an unused name (line 309). *)
TabOwnershipLostSubscribed(view) == FALSE

(* A GhosttyTerminal listens to terminal:ownershipLost from the commit that
   set sessionId (lines 183-209). *)
WindowOwnershipLostSubscribed(w) == windows[w].sessionId

(* C14: a mounted panel component that has claimed a session is subscribed to
   the ownership-lost signal: the single panel of every window, and a tab of
   the tabbed panel. *)
C14_ClaimantSubscribed ==
    /\ \A w \in 1..MaxWindows :
          windows[w].claimAsked => WindowOwnershipLostSubscribed(w)
    /\ (tabView.phase = "mounted" /\ tabView.claimAsked) =>
          TabOwnershipLostSubscribed(tabView)
----------------------------------------------------------------------------
(* The same windows under a host whose ownership actions can also reject, with
   the panel unmounted and mounted again in a window (the session persists and
   stays owned: lines 175-179), and with the session's process exiting. *)

(* checkTerminalOwnership rejected: `catch (ownershipError)`, lines 156-160 *)
WindowCheckFailed(w) ==
    /\ windows[w].pc = "checking"
    /\ WindowCommit(w, [windows[w] EXCEPT !.pc = "idle",
                                          !.shouldRenderTerminal = TRUE])
    /\ UNCHANGED <<tabbedVars, viewVars, sessionOwner, ownershipLost>>

(* claimTerminalOwnership(id) rejected: the same catch, lines 151-160 *)
WindowClaimRejected(w) ==
    /\ windows[w].pc = "claiming"
    /\ WindowCommit(w, [windows[w] EXCEPT !.pc = "idle",
                                          !.claimResult = "rejected",
                                          !.shouldRenderTerminal = TRUE])
    /\ UNCHANGED <<tabbedVars, viewVars, sessionOwner, ownershipLost>>

(* claimTerminalOwnership(sessionId, true) rejected: handleTakeControl's catch,
   lines 104-107 *)
WindowTakeControlRejected(w) ==
    /\ windows[w].pc = "taking"
    /\ windows' = [windows EXCEPT ![w].pc = "idle", ![w].claimResult = "rejected",
                                  ![w].isTransitioning = FALSE]
    /\ UNCHANGED <<tabbedVars, viewVars, sessionOwner, ownershipLost>>

(* the panel is unmounted with no call of its own under way: every effect's
   cleanup runs; ownership is not released and the session is not destroyed *)
WindowUnmount(w) ==
    /\ windows[w].pc = "idle"
    /\ windows[w].opening = 0
    /\ windows' = [windows EXCEPT ![w] = WindowUnmounted]
    /\ UNCHANGED <<tabbedVars, viewVars, sessionOwner, ownershipLost>>

(* terminal:exit for the session is emitted in window w; handleExit (lines
   321-325) is registered while sessionId && shouldRenderTerminal *)
SessionExitEmitted(w) ==
    /\ windows[w].sessionId
    /\ ~windows[w].exitNotified
    /\ windows' = [windows EXCEPT
                     ![w].exitNotified = TRUE,
                     ![w].error = windows[w].shouldRenderTerminal]
    /\ UNCHANGED <<tabbedVars, viewVars, sessionOwner, ownershipLost>>

NextWindows ==
    \/ \E w \in 1..MaxWindows : WindowMount(w)
    \/ \E w \in 1..MaxWindows : WindowSessionCreated(w)
    \/ \E w \in 1..MaxWindows : WindowChecked(w)
    \/ \E w \in 1..MaxWindows : WindowCheckFailed(w)
    \/ \E w \in 1..MaxWindows : WindowClaimed(w)
    \/ \E w \in 1..MaxWindows : WindowClaimRejected(w)
    \/ \E w \in 1..MaxWindows : WindowOpenResolved(w)
    \/ \E w \in 1..MaxWindows : WindowRefreshSettled(w)
    \/ \E w \in 1..MaxWindows : WindowTakeControl(w)
    \/ \E w \in 1..MaxWindows : WindowTookControl(w)
    \/ \E w \in 1..MaxWindows : WindowTakeControlRejected(w)
    \/ \E w \in 1..MaxWindows : OwnershipLostDelivered(w)
    \/ \E w \in 1..MaxWindows : WindowUnmount(w)
    \/ \E w \in 1..MaxWindows : SessionExitEmitted(w)

SpecWindows == InitOwner /\ [][NextWindows]_vars

(* C15: a window that shows the owned-elsewhere overlay goes back to rendering
   the terminal only in a step in which a claim of its own is granted: not when
   its ownership check fails, not when its claim is refused or rejected. *)
C15_ResumesOnlyAfterGrantedClaim ==
    [][ \A w \in 1..MaxWindows :
          ( /\ windows[w].sessionId
            /\ ~windows[w].shouldRenderTerminal
            /\ windows'[w].pc # "unmounted"
            /\ windows'[w].shouldRenderTerminal ) =>
              /\ windows[w].pc \in {"claiming", "taking"}
              /\ windows'[w].claimResult = "success"
              /\ sessionOwner' = w ]_vars
----------------------------------------------------------------------------
(* a renderer of the component exists or is being opened *)
RendererStarted(c) == c.instance \/ c.opening > 0

(* C16: with a host that provides claimTerminalOwnership, a component has
   called it for its session before it creates the renderer for that session:
   the single panel of every window, and a tab of the tabbed panel. *)
C16_ClaimBeforeRenderer ==
    /\ \A w \in 1..MaxWindows :
          RendererStarted(windows[w]) => windows[w].claimAsked
    /\ (tabActions.claimTerminalOwnership /\ RendererStarted(tabView)) =>
          tabView.claimAsked
----------------------------------------------------------------------------
(* C17: a tab's component holds a terminal instance, the one its data callback
   writes the session's output to, only while it is mounted and its tab is the
   active one. *)
C17_InstanceOnlyWhileActive ==
    tabView.instance => (tabView.phase = "mounted" /\ tabView.isActive)
----------------------------------------------------------------------------
(* C18: once the exit of its session has been emitted to a panel, the panel
   displays the error with the exit code and holds no terminal instance that
   output is written to or that forwards input. *)
C18_ExitedShowsErrorOnly ==
    \A w \in 1..MaxWindows :
        windows[w].exitNotified =>
            /\ windows[w].error
            /\ ~windows[w].instance
----------------------------------------------------------------------------
(* the attachment has come to rest: the active tab's component is subscribed,
   holds its terminal instance, and no open and no refresh is still to come *)
AttachmentSettled ==
    /\ tabView.phase = "mounted"
    /\ tabView.isActive
    /\ tabView.subscribed
    /\ tabView.instance
    /\ tabView.opening = 0
    /\ refreshTimers = {}
    /\ tabActions.refreshTerminal

(* C19: the output produced before an attachment is written to the terminal
   instance of that attachment exactly once: never twice, and once when the
   attachment has come to rest. *)
C19_ReplayedExactlyOnce ==
    /\ tabView.replayed <= 1
    /\ AttachmentSettled => tabView.replayed = 1
----------------------------------------------------------------------------
(* C20: when createTerminalSession resolves for a tab whose component was
   unmounted meanwhile, the tab-to-session map, the tab list and the active id
   stay as they are, and no component's state changes: none has set a session
   id or called claimTerminalOwnership for the returned session. *)
C20_ResolutionAfterCloseIgnored ==
    [][ \A c \in creating :
          (CreateResolved(c) /\ ~c.alive) =>
              /\ sessionIds' = sessionIds
              /\ tabs' = tabs
              /\ activeTabId' = activeTabId
              /\ content' = content
              /\ \A id \in DOMAIN sessionIds' : sessionIds'[id] # NewSessionId(c) ]_vars

(* C20 witness: the second createTerminalSession call resolved after its tab
   was closed and was ignored; the first tab is open and bound to its session *)
C20_Witness ==
    /\ lastOp.op = "createIgnored"
    /\ createCalls = 2
    /\ Len(tabs) = 1
    /\ creating = {}
    /\ DOMAIN sessionIds = {tabs[1].id}
    /\ sessionIds[tabs[1].id] = MaxHostSessions + 1
----------------------------------------------------------------------------
(* the host actions closeTab(tabId) calls, lines 430-433: the session's
   destroyTerminalSession when the tab is bound and the host provides it, and
   nothing else (releaseTerminalOwnership is declared in TerminalActions and
   called nowhere) *)
closeTabRequests(tabId) ==
    IF tabId \in DOMAIN sessionIds /\ props.has.destroy
    THEN {"destroyTerminalSession"}
    ELSE {}

(* C21: closing a tab that is bound to a session requests
   releaseTerminalOwnership for that session. *)
C21_CloseReleasesOwnership ==
    \A i \in 1..Len(tabs) :
        tabs[i].id \in DOMAIN sessionIds =>
            "releaseTerminalOwnership" \in closeTabRequests(tabs[i].id)
----------------------------------------------------------------------------
(* Tabs that keep their sessions: restored tabs, or initial tabs that create
   their sessions, over a host with createTerminalSession and
   destroyTerminalSession; the user switches and closes. *)
SwitchProps ==
    {Props(its, TRUE, [list |-> TRUE, create |-> TRUE, destroy |-> TRUE], TRUE) :
        its \in InitialTabSets}

SwitchHosts == {[i \in 1..n |-> HostSession(i)] : n \in 0..MaxHostSessions}

InitSwitch == InitPanel(SwitchProps, SwitchHosts, TRUE)

NextSwitch ==
    \/ Mount
    \/ ListResolveBatched
    \/ \E id \in TabIds(tabs) : ClickTab(id)
    \/ \E id \in TabIds(tabs) : ClickClose(id)
    \/ \E c \in creating : CreateResolved(c)
    \/ \E r \in closing, ok \in BOOLEAN : DestroySettled(r, ok)

SpecSwitch == InitSwitch /\ [][NextSwitch]_vars

(* a step of switchTab *)
SwitchStep == \E id \in TabIds(tabs) : ClickTab(id)

(* C22: destroyTerminalSession is requested only by closeTab of the tab bound
   to that session; a switch of tabs requests no destruction and no creation
   and leaves the tab-to-session map as it is; and createTerminalSession is
   never requested for a tab that is bound to a session. *)
C22_DestroyOnlyOnClose ==
    [][ /\ \A r \in closing' \ closing :
              /\ lastOp'.op = "closeRequested"
              /\ r.tab \in DOMAIN sessionIds
              /\ r.sid = sessionIds[r.tab]
        /\ \A c \in creating' \ creating : c.tab \notin DOMAIN sessionIds'
        /\ (lastOp'.op = "switchTab" /\ SwitchStep) =>
              /\ closing' = closing
              /\ creating' = creating
              /\ createCalls' = createCalls
              /\ sessionIds' = sessionIds ]_vars

(* C22 witness: a switch has just left a tab that is bound to a session, with
   another bound tab now active and no close under way *)
C22_Witness ==
    /\ lastOp.op = "switchTab"
    /\ Len(tabs) >= 2
    /\ \A i \in 1..Len(tabs) : tabs[i].id \in DOMAIN sessionIds
    /\ activeTabId = tabs[1].id
    /\ closing = {}
    /\ creating = {}
    /\ createCalls > 0
----------------------------------------------------------------------------
(* C23: when destroyTerminalSession rejects, closeTab still removes the tab
   from the list and its entry from the tab-to-session map, still re-selects
   the active tab (the last remaining tab when the closed tab was the active
   one closeTab was called with, none when no tab remains), and no tab's
   component is in the error state. *)
C23_CleanupDespiteReject ==
    [][ \A r \in closing :
          (lastOp'.op = "closedDestroyFailed" /\ DestroySettled(r, FALSE)) =>
              /\ r.tab \notin TabIds(tabs')
              /\ r.tab \notin DOMAIN sessionIds'
              /\ Len(tabs') = 0 => activeTabId' = Null
              /\ (r.activeAt = r.tab /\ Len(tabs') > 0) =>
                    /\ activeTabId' = Last(tabs').id
                    /\ Last(tabs').isActive
              /\ \A id \in DOMAIN content' : ~content'[id].error ]_vars

(* C23 witness: the destroy of the active tab's session was rejected, the tab
   is gone and the last of the remaining tabs is active *)
C23_Witness ==
    /\ lastOp.op = "closedDestroyFailed"
    /\ lastOp.n > 0
    /\ Len(tabs) >= 1
    /\ activeTabId = Last(tabs).id
    /\ Len(hostSessions) > Len(tabs)
    /\ DOMAIN sessionIds = TabIds(tabs)
----------------------------------------------------------------------------
(* C24: a tab whose close has requested destroyTerminalSession is no longer in
   the tab list while the request is unanswered. *)
C24_CloseDoesNotWaitForDestroy ==
    \A r \in closing : r.tab \notin TabIds(tabs)
----------------------------------------------------------------------------
(* Session creation failing: the tabbed panel with initial and added tabs over
   a host whose createTerminalSession is absent, or present and resolving or
   rejecting; and the single panel of each window, whose createTerminalSession
   resolves or fails. *)

(* createTerminalSession absent (the throw of lines 113-117) or rejected: the
   outer catch of initTerminal, lines 165-170 *)
WindowCreateFailed(w) ==
    /\ windows[w].pc = "creating"
    /\ windows' = [windows EXCEPT ![w].pc = "failed",
                                  ![w].error = windows[w].mounted]
    /\ UNCHANGED <<tabbedVars, viewVars, sessionOwner, ownershipLost>>

CreateProps ==
    {Props(its, TRUE, [list |-> FALSE, create |-> create, destroy |-> FALSE], TRUE) :
        its \in InitialTabSets, create \in BOOLEAN}

InitCreate == InitPanel(CreateProps, {<< >>}, TRUE)

NextCreate ==
    \/ Mount
    \/ \E id \in TabIds(tabs) : ClickTab(id)
    \/ \E id \in TabIds(tabs) : ClickClose(id)
    \/ ClickAddButton
    \/ \E c \in creating : CreateResolved(c)
    \/ \E c \in creating : CreateRejected(c)
    \/ \E w \in 1..MaxWindows : WindowMount(w)
    \/ \E w \in 1..MaxWindows : WindowSessionCreated(w)
    \/ \E w \in 1..MaxWindows : WindowCreateFailed(w)
    \/ \E w \in 1..MaxWindows : WindowOpenResolved(w)

SpecCreate == InitCreate /\ [][NextCreate]_vars

(* the components that stay mounted over the step *)
StayingIds == DOMAIN content \cap DOMAIN content'

(* C25: a tab whose createTerminalSession is absent or was rejected displays
   the error for as long as it is mounted and never calls createTerminalSession
   again, and the rejection leaves the tab list, the active id, the
   tab-to-session map and the other tabs' components as they were; a single
   panel whose createTerminalSession failed displays the error from then on
   and never creates a session. *)
C25_CreateFailureIsFinal ==
    [][ /\ \A id \in StayingIds :
              content[id].error =>
                  /\ content'[id].error
                  /\ \A c \in creating' \ creating : c.tab # id
        /\ \A c \in creating :
              (lastOp'.op = "createFailed" /\ CreateRejected(c) /\ c.alive) =>
                  /\ content'[c.tab].error
                  /\ tabs' = tabs
                  /\ activeTabId' = activeTabId
                  /\ sessionIds' = sessionIds
                  /\ \A id \in DOMAIN content \ {c.tab} : content'[id] = content[id]
        /\ ~props.has.create =>
              /\ creating' = {}
              /\ \A id \in DOMAIN content' : content'[id].error
        /\ \A w \in 1..MaxWindows :
              /\ WindowCreateFailed(w) => windows'[w].error
              /\ windows[w].pc = "failed" => windows'[w] = windows[w] ]_vars

(* C25 witness: the active tab's createTerminalSession was rejected and it
   shows the error beside a tab that got its session; a single panel shows its
   creation error *)
C25_Witness ==
    /\ lastOp.op = "createFailed"
    /\ Len(tabs) = 2
    /\ \E i \in 1..2 :
          /\ content[tabs[i].id].error
          /\ tabs[i].id \notin DOMAIN sessionIds
          /\ tabs[3 - i].id \in DOMAIN sessionIds
          /\ ~content[tabs[3 - i].id].error
    /\ creating = {}
    /\ \E w \in 1..MaxWindows :
          windows[w].pc = "failed" /\ windows[w].error /\ ~windows[w].sessionId
----------------------------------------------------------------------------
(* C26: a refreshTerminal call that rejects leaves the tab's component as it
   was (not in the error state, its data subscription as before; only the
   history of the call having been made is kept) and leaves the tab list, the
   active id and the tab-to-session map unchanged. *)
C26_RefreshRejectionChangesNothing ==
    [][ \A t \in refreshTimers :
          (lastOp'.op = "refreshRejected" /\ RefreshRejected(t)) =>
              /\ tabView'.error = tabView.error
              /\ tabView'.subscribed = tabView.subscribed
              /\ tabView' = [tabView EXCEPT !.refreshOwed = FALSE]
              /\ tabs' = tabs
              /\ activeTabId' = activeTabId
              /\ sessionIds' = sessionIds ]_vars

(* C26 witness: a refresh was rejected and the active tab's component is
   subscribed, holds its terminal and shows no error *)
C26_Witness ==
    /\ lastOp.op = "refreshRejected"
    /\ tabView.phase = "mounted"
    /\ tabView.isActive
    /\ tabView.subscribed
    /\ tabView.instance
    /\ ~tabView.error
    /\ tabView.replayed = 0
----------------------------------------------------------------------------
(* C27: switchTab(tabId) on a tab of the list sets isActive on the tab with
   that id and clears it on every other tab, makes tabId the active id, and
   leaves the order, labels and directories of the tabs and the tab-to-session
   map as they were; on the tab that is already active it changes nothing, and
   a second application changes nothing more. *)
C27_SwitchTab ==
    [][ \A id \in TabIds(tabs) :
          (lastOp'.op = "switchTab" /\ ClickTab(id)) =>
              /\ Len(tabs') = Len(tabs)
              /\ \A i \in 1..Len(tabs) :
                    /\ tabs'[i] = [tabs[i] EXCEPT !.isActive = (tabs[i].id = id)]
                    /\ tabs'[i].isActive <=> tabs[i].id = id
              /\ activeTabId' = id
              /\ sessionIds' = sessionIds
              /\ (activeTabId = id /\ ActiveCount(tabs) = 1
                    /\ tabs[IndexOf(tabs, id)].isActive) => tabs' = tabs
              /\ SwitchedTabs(tabs', id) = tabs' ]_vars

(* C27 witness: a switch made the second of several bound tabs the active one *)
C27_Witness ==
    /\ lastOp.op = "switchTab"
    /\ Len(tabs) >= 2
    /\ activeTabId = tabs[2].id
    /\ tabs[2].isActive
    /\ ~tabs[1].isActive
    /\ tabs[1].id \in DOMAIN sessionIds
    /\ tabs[2].id \in DOMAIN sessionIds
----------------------------------------------------------------------------
(* what addNewTab leaves: the former tabs in their order, each inactive, then
   the new tab, active, whose id is the active id *)
TabAppended ==
    /\ Len(tabs') = Len(tabs) + 1
    /\ \A i \in 1..Len(tabs) : tabs'[i] = [tabs[i] EXCEPT !.isActive = FALSE]
    /\ Last(tabs').isActive
    /\ ActiveCount(tabs') = 1
    /\ activeTabId' = Last(tabs').id

(* C28: every addNewTab (the '+' button, the 'New Terminal' button, a chord
   that is not discarded) appends the new tab at the end of the list, keeps the
   existing tabs in their order, makes them inactive and the new tab active,
   and sets activeTabId to the new tab's id. *)
C28_AddAppends ==
    [][ Len(tabs') # Len(tabs) =>
          /\ ButtonClick => TabAppended
          /\ KeyT => TabAppended ]_vars

(* C28 witness: the '+' button added a third tab, which alone is active *)
C28_Witness ==
    /\ lastOp.op = "addButton"
    /\ Len(tabs) = 3
    /\ tabs[3].isActive
    /\ ~tabs[1].isActive
    /\ ~tabs[2].isActive
    /\ activeTabId = tabs[3].id
    /\ tabs[3].id # tabs[1].id
----------------------------------------------------------------------------
(* The same component when pending work is carried out: an open under way
   resolves, time passes, and a refresh timeout that is due calls
   refreshTerminal. *)
SpecContentFair ==
    /\ InitContent
    /\ [][NextContent]_vars
    /\ WF_vars(ViewOpenResolved)
    /\ WF_vars(ViewTick)
    /\ WF_vars(\E t \in refreshTimers : RefreshTimerFires(t) \/ RefreshRejected(t))

(* C29: whenever a tab with a bound session has become the active tab, on a
   host that provides refreshTerminal, a refreshTerminal call for its session
   is eventually made, unless the tab is closed first. *)
C29_ActivationRefreshes ==
    tabView.refreshOwed ~> (~tabView.refreshOwed \/ tabView.phase = "gone")

(* C29 as claimed: whenever a tab with a bound session has become the active
   tab, on a host that provides refreshTerminal, a refreshTerminal call for its
   session is eventually made. *)
C29_Original ==
    tabView.refreshOwed ~> ~tabView.refreshOwed

(* C29 witness: the active tab's component has called refreshTerminal since it
   became active and the replayed buffer was written to its terminal *)
C29_Witness ==
    /\ tabView.phase = "mounted"
    /\ tabView.isActive
    /\ tabView.localSessionId
    /\ tabActions.refreshTerminal
    /\ ~tabView.refreshOwed
    /\ tabView.replayed >= 1
    /\ refreshTimers = {}
----------------------------------------------------------------------------
(* window w calls claimTerminalOwnership in this step *)
ClaimCalled(w) ==
    /\ windows'[w].pc # windows[w].pc
    /\ windows'[w].pc \in {"claiming", "taking"}

(* window w learns in this step that the session is owned by another window:
   by its check, by the answer to its claim, or by the ownership-lost event *)
ConflictSeen(w) ==
    \/ WindowChecked(w) /\ OwnedElsewhere(w)
    \/ windows'[w].claimResult = "owned-elsewhere" /\ windows[w].pc = "claiming"
                                                    /\ windows'[w].pc = "idle"
    \/ OwnershipLostDelivered(w) /\ windows[w].sessionId

(* C30: a panel calls claimTerminalOwnership with force exactly when the call
   is made by the user's take-control click on the overlay; the claim made by
   the mount after the session was created is without force and displaces no
   owner; and a step in which a panel learns of an ownership conflict does not
   put it in the error state. *)
C30_ForceOnlyOnTakeControl ==
    [][ \A w \in 1..MaxWindows :
          /\ ClaimCalled(w) => (windows'[w].forced <=> WindowTakeControl(w))
          /\ (windows[w].pc = "claiming" /\ windows'[w].pc = "idle"
                 /\ sessionOwner \notin {0, w})
                => sessionOwner' = sessionOwner
          /\ ConflictSeen(w) => (windows'[w].error => windows[w].error) ]_vars

(* C30 witness: one window took the session by its forced claim after the
   other's unforced claim had been granted, the other was evicted, and neither
   shows an error *)
C30_Witness ==
    \E w, v \in 1..MaxWindows :
        /\ w # v
        /\ windows[w].forced
        /\ windows[w].claimResult = "success"
        /\ sessionOwner = w
        /\ windows[v].claimResult = "success"
        /\ ~windows[v].forced
        /\ windows[v].evicted
        /\ ~windows[v].shouldRenderTerminal
        /\ ~windows[w].error
        /\ ~windows[v].error
----------------------------------------------------------------------------
(* the user switched to tab id while the close r was awaiting its destroy call:
   id is the active tab, it is not the tab being closed and not the tab that
   was active when closeTab was called *)
SwitchedDuringClose(r, id) ==
    /\ r \in closing
    /\ activeTabId = id
    /\ id \in TabIds(tabs)
    /\ id # r.tab
    /\ id # r.activeAt

(* C31: when a close completes after the user switched to another tab while
   the close was awaiting its destroy call, the tab switched to is afterwards
   the active tab and the only tab whose isActive flag is set. *)
C31_SwitchSurvivesClose ==
    [][ closing' # closing =>
          \A r \in closing, ok \in BOOLEAN, id \in TabIds(tabs) :
              (SwitchedDuringClose(r, id) /\ DestroySettled(r, ok)) =>
                  /\ activeTabId' = id
                  /\ \A i \in 1..Len(tabs') : tabs'[i].isActive <=> tabs'[i].id = id
      ]_vars
----------------------------------------------------------------------------
(* Taking control: one GhosttyTerminal panel, in window ThePanel, over hosts
   with and without refreshTerminal, whose forced claim may be granted, may
   resolve with success: false, or may reject, and whose renderer may fail to
   open; the other windows are seen through the Ownership Arbiter only, as
   rivals that take the session. *)

ThePanel == 1

(* claimTerminalOwnership(sessionId, true) resolved with success: false: the
   result is not read, lines 95-101 go on as after a granted claim *)
WindowTakeControlRefused(w) ==
    /\ windows[w].pc = "taking"
    /\ WindowCommit(w, [windows[w] EXCEPT !.pc = "idle",
                                          !.claimResult = "refused",
                                          !.shouldRenderTerminal = TRUE])
    /\ UNCHANGED <<tabbedVars, viewVars, sessionOwner, ownershipLost>>

(* `await term.open(...)` rejected: the catch of lines 282-286 *)
WindowOpenFailed(w) ==
    /\ windows[w].opening > 0
    /\ windows' = [windows EXCEPT ![w].opening = @ - 1,
                                  ![w].error = TRUE,
                                  ![w].isTransitioning = FALSE]
    /\ UNCHANGED <<tabbedVars, viewVars, sessionOwner, ownershipLost>>

(* another window's forced claim, as the Arbiter and the panel see it: the
   session changes owner and the displaced owner is sent ownership-lost *)
RivalTakesControl(w) ==
    /\ w # ThePanel
    /\ sessionOwner # w
    /\ sessionOwner' = OwnerAfterClaim(w, TakeControlForce)
    /\ ownershipLost' = LostAfterClaim(w, TakeControlForce)
    /\ UNCHANGED <<tabbedVars, viewVars, windows>>

TakeActionSets ==
    [onTerminalData : {TRUE}, refreshTerminal : BOOLEAN,
     claimTerminalOwnership : {TRUE}]

InitTake ==
    /\ InitTabs(LockProps, {<< >>}, FALSE)
    /\ reportedTabs = NotFollowed
    /\ InitView(TakeActionSets)
    /\ InitWindows

(* the forced claim of window w settles *)
TakeControlSettles(w) ==
    \/ WindowTookControl(w)
    \/ WindowTakeControlRefused(w)
    \/ WindowTakeControlRejected(w)

(* the pending term.open of window w settles *)
OpenSettles(w) == WindowOpenResolved(w) \/ WindowOpenFailed(w)

NextTake ==
    \/ WindowMount(ThePanel)
    \/ WindowSessionCreated(ThePanel)
    \/ WindowChecked(ThePanel)
    \/ WindowClaimed(ThePanel)
    \/ WindowOpenResolved(ThePanel)
    \/ WindowOpenFailed(ThePanel)
    \/ WindowRefreshSettled(ThePanel)
    \/ WindowTakeControl(ThePanel)
    \/ WindowTookControl(ThePanel)
    \/ WindowTakeControlRefused(ThePanel)
    \/ WindowTakeControlRejected(ThePanel)
    \/ \E w \in 1..MaxWindows : RivalTakesControl(w)
    \/ \E w \in 1..MaxWindows : OwnershipLostDelivered(w)

SpecTake == InitTake /\ [][NextTake]_vars

(* every host call made settles and every timeout set fires *)
SpecTakeFair ==
    /\ InitTake
    /\ [][NextTake]_vars
    /\ WF_vars(TakeControlSettles(ThePanel))
    /\ WF_vars(OpenSettles(ThePanel))
    /\ WF_vars(WindowRefreshSettled(ThePanel))

(* C32: when the forced claim of a take-control action settles, the panel goes
   back to rendering the terminal only if the claim resolved with success;
   after a claim that rejected or resolved without success the panel shows the
   take-control overlay and is not transitioning. *)
C32_ResumesOnlyOnSuccess ==
    [][ \A w \in 1..MaxWindows :
          (windows[w].pc = "taking" /\ windows'[w].pc # "taking") =>
              IF windows'[w].claimResult = "success"
              THEN TRUE
              ELSE /\ ~windows'[w].shouldRenderTerminal
                   /\ ~windows'[w].isTransitioning ]_vars

(* C33: a panel that a take-control action has put in the transitioning state
   eventually leaves it, when every host call settles and every timeout
   fires. *)
C33_TransitionEnds ==
    \A w \in 1..MaxWindows :
        windows[w].isTransitioning ~> ~windows[w].isTransitioning

(* C33 witness: the panel took control, was evicted again during the
   transition, and after its renderer opened and its refresh timeout fired it
   is no longer transitioning *)
C33_Witness ==
    \E w \in 1..MaxWindows :
        /\ windows[w].forced
        /\ windows[w].claimResult = "success"
        /\ windows[w].evicted
        /\ ~windows[w].shouldRenderTerminal
        /\ windows[w].instance
        /\ windows[w].opening = 0
        /\ windows[w].refreshTimeouts = 0
        /\ ~windows[w].isTransitioning
        /\ tabActions.refreshTerminal
----------------------------------------------------------------------------
(* The key chord and its lock alone: a panel without initial tabs over a host
   with no session actions; chords, tab clicks, closes and time, where time
   goes on and a due timeout runs. *)
ChordProps ==
    {Props(<< >>, FALSE, [list |-> FALSE, create |-> FALSE, destroy |-> FALSE], TRUE)}

InitChord == InitPanel(ChordProps, {<< >>}, TRUE)

NextChord ==
    \/ Mount
    \/ KeyT
    \/ \E id \in TabIds(tabs) : ClickTab(id)
    \/ \E id \in TabIds(tabs) : ClickClose(id)
    \/ LockTimerFires
    \/ Tick
    \/ MsElapses

SpecChord ==
    /\ InitChord
    /\ [][NextChord]_vars
    /\ WF_vars(Tick)
    /\ WF_vars(LockTimerFires)

(* the lock is engaged exactly while its one release timeout is pending, and
   that timeout is due one lock window after the accepted chord *)
LockLastsOneWindow ==
    /\ isCreatingTabRef <=> lockTimers # {}
    /\ lockTimers \subseteq {LockWindowMs - sinceChord}

(* C34: an accepted modifier+T engages the lock for one lock window, measured
   from that chord; a chord discarded meanwhile changes neither the lock nor
   its timeout; the lock is always eventually released; and a chord pressed
   once the window's timeout has run is accepted, adds a tab and engages the
   lock anew. *)
C34_LockWindow ==
    /\ []LockLastsOneWindow
    /\ [][ KeyT => IF LockEngaged
                   THEN /\ UNCHANGED lockVars
                        /\ tabs' = tabs
                   ELSE /\ Len(tabs') = Len(tabs) + 1
                        /\ isCreatingTabRef'
                        /\ lockTimers' = {LockWindowMs} ]_vars
    /\ (isCreatingTabRef ~> ~isCreatingTabRef)

(* C34 witness: a chord pressed one lock window after the first accepted chord
   was accepted and added the second tab *)
C34_Witness ==
    /\ lastOp = [op |-> "keyT", n |-> LockWindowMs]
    /\ Len(tabs) = 2
    /\ isCreatingTabRef
    /\ lockTimers = {LockWindowMs}
----------------------------------------------------------------------------
(* C35: in every state of the mounted tabbed panel, activeTabId is null exactly
   when the tab list is empty, and otherwise it is the id of a tab of the list
   and the tabs whose isActive flag is set are exactly the tabs with that id. *)
C35_ActiveTabAgrees ==
    restorePhase # "unmounted" =>
        IF Len(tabs) = 0
        THEN activeTabId = Null
        ELSE /\ activeTabId \in TabIds(tabs)
             /\ \A i \in 1..Len(tabs) : tabs[i].isActive <=> tabs[i].id = activeTabId
----------------------------------------------------------------------------
(* the session ids the panel holds: bound to a tab in the tab-to-session map, or
   handed to destroyTerminalSession by a close under way *)
TrackedSessions(map, closes) ==
    {map[id] : id \in DOMAIN map} \cup {r.sid : r \in closes}

(* C36: the session id that a createTerminalSession call returns to the panel
   is bound to a tab or handed to destroyTerminalSession.  The continuation
   that receives the id (initSession, lines 79-89) is the only code that holds
   it, so the id is tracked from the step that receives it or never. *)
C36_CreatedSessionTracked ==
    [][ creating' # creating =>
          \A c \in creating :
              CreateResolved(c) =>
                  NewSessionId(c) \in TrackedSessions(sessionIds', closing') ]_vars
----------------------------------------------------------------------------
(* a step of restoreSessions after its await *)
RestoreStep ==
    \/ ListResolveBatched
    \/ ListResolveSetTabs
    \/ RestoreSetSessionIds
    \/ RestoreSetActiveTabId
    \/ ListReject

(* the tabs made by addNewTab: `tab-${Date.now()}` *)
AddedTabIds(ts) == {id \in TabIds(ts) : id[1] = "tab"}

(* C37: restore keeps the tabs added while its listing was pending and their
   session bindings: every step of restoreSessions after its await leaves each
   added tab in the tab list and each added tab's entry in the tab-to-session
   map. *)
C37_RestoreKeepsAddedTabs ==
    [][ (restorePhase # "done" /\ RestoreStep) =>
          \A id \in AddedTabIds(tabs) :
              /\ id \in TabIds(tabs')
              /\ id \in DOMAIN sessionIds =>
                    /\ id \in DOMAIN sessionIds'
                    /\ sessionIds'[id] = sessionIds[id] ]_vars
----------------------------------------------------------------------------
(* The mount effect run again: the panel of window ThePanel under a host that
   changes its repository path, or a React root that invokes effects twice. *)

(* the terminalDirectory dependency of the mount effect changed (line 180), or
   the effect was invoked a second time: the cleanup of lines 175-179 sets the
   `mounted` flag of the run under way to false, and the new run returns at
   line 112 because hasInitializedRef is set *)
WindowDirectoryChanged(w) ==
    /\ windows[w].pc # "unmounted"
    /\ windows[w].mounted
    /\ windows' = [windows EXCEPT ![w].mounted = FALSE]
    /\ UNCHANGED <<tabbedVars, viewVars, sessionOwner, ownershipLost>>

NextReinit ==
    \/ WindowMount(ThePanel)
    \/ WindowDirectoryChanged(ThePanel)
    \/ WindowSessionCreated(ThePanel)
    \/ WindowChecked(ThePanel)
    \/ WindowClaimed(ThePanel)
    \/ WindowOpenResolved(ThePanel)
    \/ WindowRefreshSettled(ThePanel)
    \/ WindowTakeControl(ThePanel)
    \/ WindowTookControl(ThePanel)
    \/ \E w \in 1..MaxWindows : RivalTakesControl(w)
    \/ \E w \in 1..MaxWindows : OwnershipLostDelivered(w)

SpecReinit == InitTake /\ [][NextReinit]_vars

(* C38: when the createTerminalSession call of a component resolves while the
   component is mounted, the component adopts the session id. *)
C38_ResolvedCreateAdopted ==
    [][ \A w \in 1..MaxWindows :
          ( /\ windows[w].pc = "creating"
            /\ windows'[w].pc \notin {"creating", "unmounted", "failed"} ) =>
              windows'[w].sessionId ]_vars
----------------------------------------------------------------------------
(* C39: the tabs of the tab list have pairwise distinct ids. *)
C39_TabIdsDistinct ==
    \A i, j \in 1..Len(tabs) : tabs[i].id = tabs[j].id => i = j
----------------------------------------------------------------------------
(* What the caller is told: a panel without initial tabs over hosts with
   listTerminalSessions, with and without destroyTerminalSession; restore, add,
   switch and close, the onTabsChange calls being followed. *)
ReportProps ==
    {Props(<< >>, TRUE, [list |-> TRUE, create |-> FALSE, destroy |-> destroy], TRUE) :
        destroy \in BOOLEAN}

InitReport ==
    /\ InitTabs(ReportProps, HostLists, TRUE)
    /\ reportedTabs = NothingReported
    /\ InitView(AllActions)
    /\ InitWindows

NextReport ==
    \/ Mount
    \/ ListResolveBatched
    \/ \E id \in TabIds(tabs) : ClickTab(id)
    \/ \E id \in TabIds(tabs) : ClickClose(id)
    \/ ClickAddButton
    \/ \E r \in closing, ok \in BOOLEAN : DestroySettled(r, ok)
    \/ MsElapses

SpecReport == InitReport /\ [][NextReport]_vars

(* C40: once restore is over and no close is under way, the tab list most
   recently passed to onTabsChange (the empty list if it was never called) is
   the panel's tab list, isActive flags included. *)
C40_ReportedTabsCurrent ==
    (restorePhase = "done" /\ closing = {}) => reportedTabs.tabs = tabs
====
